---- MODULE Spec2Model ----
(***************************************************************************)
(* A model of the generation module of parsverse (story_generator.py): the *)
(* terminology policy engine, region normalization, and the bounded retry  *)
(* loop of the myth, chronicle and persona generators.                     *)
(*                                                                         *)
(* A Python str is a sequence of characters.  A character is written as a  *)
(* one-character string; a letter outside ASCII is written as a           *)
(* two-character code: "s^" s-caron, "c," c-cedilla, "s." s-underdot,      *)
(* "a-" a-macron, "u-"/"U-" u-macron, "i-" i-macron, "o-" o-macron,        *)
(* "th" theta, "e@" schwa, "ng" eng, "bq" backquote, "lq"/"rq" the curly   *)
(* double quotes, "ls"/"rs" the curly single quotes.                       *)
(***************************************************************************)
EXTENDS Integers, Sequences, FiniteSets, TLC

VARIABLES
  TRANSLIT_MODE,   \* module-level transliteration mode
  PROVIDER,        \* module-level completion provider
  key_set,         \* the provider's API key is set in the environment
  _openai_client,  \* the cached OpenAI client exists
  _groq_client,    \* the cached Groq client exists
  req,             \* the request: task, name, region, hobby, detail_level
  pc,              \* where the generator is: start, loop, returned, raised
  prompt,          \* the prompt (its region, the REVISION blocks appended) and max_tokens
  tries,           \* loop iterations completed
  calls,           \* completion calls made so far
  lookups,         \* _get_client() calls made so far
  raw,             \* the stripped text of the last completion
  last,            \* last_text / last_data
  result,          \* the value returned
  error,           \* the exception raised
  failure,         \* what the collaborator or the client lookup failed with
  arg,             \* policy harness: the text T the passes are applied to
  val,             \* policy harness: the current value
  prev,            \* policy harness: the value before the last pass
  hist             \* the calls so far, in order: passes applied, requests sent

vars == <<TRANSLIT_MODE, PROVIDER, key_set, _openai_client, _groq_client, req, pc,
          prompt, tries, calls, lookups, raw, last, result, error, failure,
          arg, val, prev, hist>>

(***************************************************************************)
(* Characters and Python's regular expressions (re), as far as the         *)
(* patterns of the module use them: \bword(alt|alt)?\b with IGNORECASE,    *)
(* and runs of a character class.                                          *)
(***************************************************************************)
AsciiUpper == <<"A","B","C","D","E","F","G","H","I","J","K","L","M",
                "N","O","P","Q","R","S","T","U","V","W","X","Y","Z">>
AsciiLower == <<"a","b","c","d","e","f","g","h","i","j","k","l","m",
                "n","o","p","q","r","s","t","u","v","w","x","y","z">>
Digits == {"0","1","2","3","4","5","6","7","8","9"}
NonAsciiLetters == {"s^","c,","s.","a-","u-","U-","i-","o-","th","e@","ng"}

\* str.lower() / the case folding of re.IGNORECASE, one character
ToLowerMap == [c \in {AsciiUpper[i] : i \in 1..26} |->
                 AsciiLower[CHOOSE i \in 1..26 : AsciiUpper[i] = c]]
casefold(c) ==
  IF c \in DOMAIN ToLowerMap THEN ToLowerMap[c]
  ELSE IF c = "U-" THEN "u-" ELSE c

\* \w of a str pattern: Unicode letters, digits and the underscore
WordChars == {AsciiUpper[i] : i \in 1..26} \cup {AsciiLower[i] : i \in 1..26}
             \cup Digits \cup {"_"} \cup NonAsciiLetters
IsWordChar(c) == c \in WordChars

\* \s, and what str.strip() removes
Whitespace == {" ", "\t", "\n", "\r"}

\* \b before position i and after position j, where s[i], s[j] are word characters
word_boundary_before(s, i) == i = 1 \/ ~IsWordChar(s[i-1])
word_boundary_after(s, j) == j = Len(s) \/ ~IsWordChar(s[j+1])

\* the literal w occurs in s at position i, ignoring case
literal_at(w, s, i) ==
  /\ i + Len(w) - 1 <= Len(s)
  /\ \A k \in 1..Len(w) : casefold(s[i+k-1]) = casefold(w[k])

SetMin(S) == CHOOSE x \in S : \A y \in S : x <= y

\* A pattern \bstem(suffix1|suffix2)?\b is [stem, suffixes, repl]: the length of
\* its match at position i of s, 0 when it does not match there.  The optional
\* group is greedy: the alternatives are tried in order, then the empty one.
re_match_len(pat, s, i) ==
  IF ~(literal_at(pat.stem, s, i) /\ word_boundary_before(s, i)) THEN 0
  ELSE LET n == Len(pat.stem)
           alts == pat.suffixes \o << <<>> >>
           hits == {k \in 1..Len(alts) :
                      /\ literal_at(alts[k], s, i + n)
                      /\ word_boundary_after(s, i + n + Len(alts[k]) - 1)}
       IN IF hits = {} THEN 0 ELSE n + Len(alts[SetMin(hits)])

\* rx.search(s)
re_search(pat, s) == \E i \in 1..Len(s) : re_match_len(pat, s, i) > 0

\* the concatenation of pieces[lo], ..., pieces[hi]
RECURSIVE concat_range(_, _, _)
concat_range(pieces, lo, hi) ==
  IF lo > hi THEN <<>>
  ELSE IF lo = hi THEN pieces[lo]
  ELSE LET mid == (lo + hi) \div 2
       IN concat_range(pieces, lo, mid) \o concat_range(pieces, mid + 1, hi)

\* what position i of s gives to rx.sub(repl, s), lens[j] being the length of
\* the match at j.  A match is a whole word (the stem and the suffixes hold
\* word characters only, between two \b), so no match starts inside another
\* one and every match is one of the leftmost non-overlapping matches.
re_sub_from(pat, s, lens, i) ==
  IF lens[i] > 0 THEN pat.repl
  ELSE IF \E j \in 1..(i - 1) : lens[j] > i - j THEN <<>>
  ELSE <<s[i]>>

\* rx.sub(repl, s)
re_sub(pat, s) ==
  LET lens == [i \in 1..Len(s) |-> re_match_len(pat, s, i)] \o <<>>
  IN IF ~re_search(pat, s) THEN s
     ELSE concat_range([i \in 1..Len(s) |-> re_sub_from(pat, s, lens, i)] \o <<>>, 1, Len(s))

\* the length of the run of characters of class cls that starts at position i
run_len(cls, s, i) ==
  LET stops == {j \in i..Len(s) : s[j] \notin cls}
  IN IF i > Len(s) THEN 0
     ELSE IF stops = {} THEN Len(s) - i + 1
     ELSE SetMin(stops) - i

\* the first position of the run of characters of class cls that holds
\* position i
run_start(cls, s, i) ==
  LET stops == {j \in 1..i : s[j] \notin cls}
  IN IF stops = {} THEN 1 ELSE 1 + (CHOOSE j \in stops : \A k \in stops : k <= j)

\* what position i of s gives to re.sub(r"[cls]{least,}", repl, s): a run of at
\* least `least` characters is matched whole, from its first character
re_sub_runs_from(cls, least, repl, s, i) ==
  IF s[i] \notin cls THEN <<s[i]>>
  ELSE LET b == run_start(cls, s, i)
       IN IF run_len(cls, s, b) < least THEN <<s[i]>>
          ELSE IF i = b THEN repl
          ELSE <<>>

\* re.sub(r"[cls]{least,}", repl, s)
re_sub_runs(cls, least, repl, s) ==
  IF \A i \in 1..(Len(s) - least + 1) : \E k \in 0..(least - 1) : s[i + k] \notin cls THEN s
  ELSE concat_range([i \in 1..Len(s) |-> re_sub_runs_from(cls, least, repl, s, i)] \o <<>>, 1, Len(s))

\* str.strip()
strip(s) ==
  LET keep == {i \in 1..Len(s) : s[i] \notin Whitespace}
  IN IF keep = {} THEN <<>>
     ELSE SubSeq(s, SetMin(keep), CHOOSE j \in keep : \A k \in keep : k <= j)

(***************************************************************************)
(* Sanitizers and guards                                                   *)
(***************************************************************************)
BANNED_MAP ==
  << [stem |-> <<"k","s","h","a","t","r","a">>, suffixes |-> <<>>, repl |-> <<"x","s^","a","c,","a"," ","(","r","o","y","a","l"," ","a","u","t","h","o","r","i","t","y",")">>],
     [stem |-> <<"k","s.","a","t","r","a">>, suffixes |-> <<>>, repl |-> <<"x","s^","a","c,","a"," ","(","r","o","y","a","l"," ","a","u","t","h","o","r","i","t","y",")">>],
     [stem |-> <<"d","h","a","r","m","a">>, suffixes |-> <<>>, repl |-> <<>>],
     [stem |-> <<"k","a","r","m","a">>, suffixes |-> <<>>, repl |-> <<>>],
     [stem |-> <<"s","a","m","s","a","r","a">>, suffixes |-> <<>>, repl |-> <<>>],
     [stem |-> <<"m","o","k","s","h","a">>, suffixes |-> <<>>, repl |-> <<>>],
     [stem |-> <<"m","a","n","t","r","a">>, suffixes |-> <<>>, repl |-> <<>>],
     [stem |-> <<"t","a","n","t","r","a">>, suffixes |-> <<>>, repl |-> <<>>],
     [stem |-> <<"s","u","t","r","a">>, suffixes |-> <<>>, repl |-> <<>>],
     [stem |-> <<"c","h","a","k","r","a">>, suffixes |-> <<>>, repl |-> <<>>],
     [stem |-> <<"v","e","d","a">>, suffixes |-> <<<<"s">>>>, repl |-> <<>>],
     [stem |-> <<"v","e","d","i","c">>, suffixes |-> <<>>, repl |-> <<>>],
     [stem |-> <<"a","t","m","a","n">>, suffixes |-> <<>>, repl |-> <<>>],
     [stem |-> <<"a-","t","m","a","n">>, suffixes |-> <<>>, repl |-> <<>>],
     [stem |-> <<"b","r","a","h","m","a">>, suffixes |-> <<<<"n">>>>, repl |-> <<>>],
     [stem |-> <<"b","r","a","h","m","i","n">>, suffixes |-> <<>>, repl |-> <<>>],
     [stem |-> <<"i","n","d","r","a">>, suffixes |-> <<>>, repl |-> <<>>],
     [stem |-> <<"s","h","i","v","a">>, suffixes |-> <<>>, repl |-> <<>>],
     [stem |-> <<"v","i","s","h","n","u">>, suffixes |-> <<>>, repl |-> <<>>],
     [stem |-> <<"g","a","n","e","s","h","a">>, suffixes |-> <<>>, repl |-> <<>>],
     [stem |-> <<"l","a","k","s","h","m","i">>, suffixes |-> <<>>, repl |-> <<>>],
     [stem |-> <<"p","u","r","u","s","h","a">>, suffixes |-> <<>>, repl |-> <<>>],
     [stem |-> <<"y","u","g","a">>, suffixes |-> <<>>, repl |-> <<>>],
     [stem |-> <<"r","a","j","a">>, suffixes |-> <<<<"h">>>>, repl |-> <<>>],
     [stem |-> <<"h","i","n","d","u">>, suffixes |-> <<<<"i","s","m">>, <<"i","s","t">>>>, repl |-> <<>>] >>

\* BANNED_COMPILED: the patterns of BANNED_MAP in order, compiled with IGNORECASE
BANNED_COMPILED == BANNED_MAP

\* for rx, repl in BANNED_COMPILED: out = rx.sub(repl, out)
RECURSIVE sub_each(_, _, _)
sub_each(pats, k, s) ==
  IF k > Len(pats) THEN s
  ELSE LET out == re_sub(pats[k], s)
       IN \* out is computed before the next pattern is applied
          IF Len(out) >= 0 THEN sub_each(pats, k + 1, out) ELSE out

\* the whitespace normalization that ends sanitize_non_iranian
normalize_whitespace(s) ==
  strip(re_sub_runs({"\n"}, 3, <<"\n","\n">>,
                    re_sub_runs({" ", "\t"}, 2, <<" ">>, s)))

\* a variant that deletes nothing
sanitize_keeps_banned(text) == normalize_whitespace(text)

\* a variant that normalizes the whitespace before the deletions
sanitize_whitespace_first(text) == sub_each(BANNED_COMPILED, 1, normalize_whitespace(text))

sanitize_non_iranian(text) == normalize_whitespace(sub_each(BANNED_COMPILED, 1, text))

\* a variant with all() in place of any()
contains_banned_all(text) ==
  \A k \in 1..Len(BANNED_COMPILED) : re_search(BANNED_COMPILED[k], text)


contains_banned(text) ==
  \E k \in 1..Len(BANNED_COMPILED) : re_search(BANNED_COMPILED[k], text)

GREEK_TO_PERSIAN_MODERN ==
  << [stem |-> <<"Z","o","r","o","a","s","t","e","r">>, suffixes |-> <<>>, repl |-> <<"Z","a","r","a","t","h","u","s","t","r","a">>],
     [stem |-> <<"M","i","t","h","r","a","s">>, suffixes |-> <<>>, repl |-> <<"M","i","t","h","r","a">>],
     [stem |-> <<"A","n","a","i","t","i","s">>, suffixes |-> <<>>, repl |-> <<"A","n","a-","h","i","t","a-">>],
     [stem |-> <<"C","y","r","u","s">>, suffixes |-> <<>>, repl |-> <<"K","o","u","r","o","s","h"," ","(","C","y","r","u","s",")">>],
     [stem |-> <<"D","a","r","i","u","s">>, suffixes |-> <<>>, repl |-> <<"D","a","r","i","u","s","h"," ","(","D","a","r","i","u","s",")">>],
     [stem |-> <<"X","e","r","x","e","s">>, suffixes |-> <<>>, repl |-> <<"K","h","a","s","h","a","y","a","r","s","h","a"," ","(","X","e","r","x","e","s",")">>],
     [stem |-> <<"A","r","t","a","x","e","r","x","e","s">>, suffixes |-> <<>>, repl |-> <<"A","r","d","e","s","h","i","r"," ","(","A","r","t","a","x","e","r","x","e","s",")">>],
     [stem |-> <<"P","e","r","s","e","p","o","l","i","s">>, suffixes |-> <<>>, repl |-> <<"P","a","r","s","a"," ","/"," ","T","a","k","h","t","-","e"," ","J","a","m","s","h","i","d"," ","(","P","e","r","s","e","p","o","l","i","s",")">>],
     [stem |-> <<"P","a","s","a","r","g","a","d","a","e">>, suffixes |-> <<>>, repl |-> <<"P","a","s","a","r","g","a","d"," ","(","P","a","s","a","r","g","a","d","a","e",")">>],
     [stem |-> <<"E","c","b","a","t","a","n","a">>, suffixes |-> <<>>, repl |-> <<"H","a","g","m","a","t","a-","n","a"," ","/"," ","H","a","m","a","d","a","n"," ","(","E","c","b","a","t","a","n","a",")">>],
     [stem |-> <<"H","y","r","c","a","n","i","a">>, suffixes |-> <<>>, repl |-> <<"G","o","r","g","a","n"," ","/"," ","V","a","r","k","a-","n","a"," ","(","H","y","r","c","a","n","i","a",")">>],
     [stem |-> <<"S","u","s","a">>, suffixes |-> <<>>, repl |-> <<"S","h","u","s","h"," ","(","S","u","s","a",")">>],
     [stem |-> <<"C","t","e","s","i","p","h","o","n">>, suffixes |-> <<>>, repl |-> <<"T","i","s","f","u","n"," ","(","C","t","e","s","i","p","h","o","n",")">>] >>

GREEK_TO_PERSIAN_OLD ==
  << [stem |-> <<"Z","o","r","o","a","s","t","e","r">>, suffixes |-> <<>>, repl |-> <<"Z","a","r","a","th","u","s^","t","r","a">>],
     [stem |-> <<"M","i","t","h","r","a","s">>, suffixes |-> <<>>, repl |-> <<"M","i","th","r","a">>],
     [stem |-> <<"A","n","a","i","t","i","s">>, suffixes |-> <<>>, repl |-> <<"A","n","a-","h","i","t","a-">>],
     [stem |-> <<"C","y","r","u","s">>, suffixes |-> <<>>, repl |-> <<"K","u-","r","u","s^">>],
     [stem |-> <<"D","a","r","i","u","s">>, suffixes |-> <<>>, repl |-> <<"D","a-","r","a","y","a","v","a","h","u","s^">>],
     [stem |-> <<"X","e","r","x","e","s">>, suffixes |-> <<>>, repl |-> <<"X","s^","a","y","a-","r","s^","a-">>],
     [stem |-> <<"A","r","t","a","x","e","r","x","e","s">>, suffixes |-> <<>>, repl |-> <<"A","r","t","a","x","s^","a","c,","a-">>],
     [stem |-> <<"P","e","r","s","e","p","o","l","i","s">>, suffixes |-> <<>>, repl |-> <<"P","a-","r","s","a">>],
     [stem |-> <<"P","a","s","a","r","g","a","d","a","e">>, suffixes |-> <<>>, repl |-> <<"P","a","th","r","a","g","a","d","a-">>],
     [stem |-> <<"E","c","b","a","t","a","n","a">>, suffixes |-> <<>>, repl |-> <<"H","a","ng","g","m","a","t","a","n","a">>],
     [stem |-> <<"H","y","r","c","a","n","i","a">>, suffixes |-> <<>>, repl |-> <<"V","a","r","k","a-","n","a">>],
     [stem |-> <<"S","u","s","a">>, suffixes |-> <<>>, repl |-> <<"U-","v","a">>],
     [stem |-> <<"C","t","e","s","i","p","h","o","n">>, suffixes |-> <<>>, repl |-> <<"T","y","s","p","w","n"," ","/"," ","T","i-","s","a","p","o-","n">>] >>

\* a variant that rewrites every run of whitespace, single characters too
prefer_persian_forms_every_run(text) ==
  LET mapping == IF TRANSLIT_MODE = "modern" THEN GREEK_TO_PERSIAN_MODERN
                 ELSE GREEK_TO_PERSIAN_OLD
  IN strip(re_sub_runs(Whitespace, 1, <<" ">>, sub_each(mapping, 1, text)))

prefer_persian_forms(text) ==
  LET mapping == IF TRANSLIT_MODE = "modern" THEN GREEK_TO_PERSIAN_MODERN
                 ELSE GREEK_TO_PERSIAN_OLD
  IN strip(re_sub_runs(Whitespace, 2, <<" ">>, sub_each(mapping, 1, text)))

(***************************************************************************)
(* Reference data                                                          *)
(***************************************************************************)
\* Python's None, where a str is expected: a sequence that is no text
None == <<"None">>

REGIONS ==
  << <<"P","e","r","s","i","s">>,
     <<"M","e","d","i","a">>,
     <<"P","a","r","t","h","i","a">>,
     <<"S","o","g","d","i","a">>,
     <<"K","h","w","a","r","e","z","m">>,
     <<"M","a","z","a","n","d","a","r","a","n">>,
     <<"K","h","o","r","a","s","a","n">>,
     <<"Z","a","g","r","o","s"," ","M","o","u","n","t","a","i","n","s">>,
     <<"C","a","s","p","i","a","n"," ","S","e","a">>,
     <<"E","l","a","m">> >>

KNOWN_REGIONS == {REGIONS[i] : i \in 1..Len(REGIONS)}

\* the default of _normalize_region
DefaultRegion == <<"P","e","r","s","i","s">>

\* a variant that compares the region without trimming it
_normalize_region_untrimmed(region) ==
  IF region \in KNOWN_REGIONS THEN region ELSE DefaultRegion

_normalize_region(region) ==
  LET r == strip(IF region = None \/ region = <<>> THEN <<>> ELSE region)
  IN IF r \in KNOWN_REGIONS THEN r ELSE DefaultRegion

(***************************************************************************)
(* JSON values and json.loads / json.dumps / str() on them.  A value is a  *)
(* record [t, v]: t the Python type, v its content (the characters of a    *)
(* str or of an int, the elements of a list, the items of a dict in        *)
(* insertion order).                                                       *)
(***************************************************************************)
PyStr(chars) == [t |-> "str", v |-> chars]
PyInt(digits) == [t |-> "int", v |-> digits]
PyNone == [t |-> "NoneType", v |-> <<>>]
PyBool(b) == [t |-> "bool", v |-> IF b THEN <<"T","r","u","e">> ELSE <<"F","a","l","s","e">>]
PyList(elems) == [t |-> "list", v |-> elems]
PyDict(items) == [t |-> "dict", v |-> items]

isinstance(x, type) == x.t = type

\* key in d
dict_has(d, key) == \E i \in 1..Len(d.v) : d.v[i].k = key

\* d.get(key, default)
dict_get(d, key, default) ==
  IF dict_has(d, key)
  THEN d.v[CHOOSE i \in 1..Len(d.v) : d.v[i].k = key].x
  ELSE default

\* d[key] = x: a key that is present keeps its place (the items are written
\* out as a tuple)
dict_set(d, key, x) ==
  IF dict_has(d, key)
  THEN PyDict([i \in 1..Len(d.v) |-> IF d.v[i].k = key THEN [k |-> key, x |-> x] ELSE d.v[i]] \o <<>>)
  ELSE PyDict(Append(d.v, [k |-> key, x |-> x]))

\* the literal w occurs in s at position i, case and all
exact_at(w, s, i) ==
  /\ i + Len(w) - 1 <= Len(s)
  /\ \A k \in 1..Len(w) : s[i+k-1] = w[k]

JsonWhitespace == {" ", "\t", "\n", "\r"}
skip_ws(s, i) == i + run_len(JsonWhitespace, s, i)

JsonFail == [ok |-> FALSE, val |-> PyNone, next |-> 0]
JsonOk(x, next) == [ok |-> TRUE, val |-> x, next |-> next]

\* a string literal whose opening quote is at position i: the inputs hold no
\* backslash; a control character inside a string is an error (strict mode)
json_string(s, i) ==
  LET closing == {j \in (i+1)..Len(s) : s[j] = "\""}
  IN IF closing = {} THEN JsonFail
     ELSE LET j == SetMin(closing)
          IN IF \E k \in (i+1)..(j-1) : s[k] \in {"\n", "\t", "\r", "\\"}
             THEN JsonFail
             ELSE JsonOk(PyStr(SubSeq(s, i + 1, j - 1)), j + 1)

\* an integer literal at position i: -?(0|[1-9][0-9]*); the inputs hold no
\* fraction and no exponent
json_number(s, i) ==
  LET neg == s[i] = "-"
      d == IF neg THEN i + 1 ELSE i
      n == run_len(Digits, s, d)
      len == IF n > 0 /\ s[d] = "0" THEN 1 ELSE n
      digits == SubSeq(s, d, d + len - 1)
  IN IF n = 0 THEN JsonFail
     ELSE JsonOk(PyInt(IF neg /\ digits # <<"0">> THEN <<"-">> \o digits ELSE digits),
                 d + len)

RECURSIVE json_value(_, _)
RECURSIVE json_elements(_, _, _)
RECURSIVE json_members(_, _, _)

\* the elements of an array, the first at position i, acc those before it
json_elements(s, i, acc) ==
  LET e == json_value(s, i)
      j == skip_ws(s, e.next)
  IN IF ~e.ok \/ j > Len(s) THEN JsonFail
     ELSE IF s[j] = "," THEN json_elements(s, skip_ws(s, j + 1), Append(acc, e.val))
     ELSE IF s[j] = "]" THEN JsonOk(PyList(Append(acc, e.val)), j + 1)
     ELSE JsonFail

\* the members of an object, the first key at position i, acc those before it
json_members(s, i, acc) ==
  IF i > Len(s) \/ s[i] # "\"" THEN JsonFail
  ELSE LET key == json_string(s, i)
           c == skip_ws(s, key.next)
       IN IF ~key.ok \/ c > Len(s) \/ s[c] # ":" THEN JsonFail
          ELSE LET x == json_value(s, skip_ws(s, c + 1))
                   j == skip_ws(s, x.next)
                   d == dict_set(acc, key.val.v, x.val)
               IN IF ~x.ok \/ j > Len(s) THEN JsonFail
                  ELSE IF s[j] = "," THEN json_members(s, skip_ws(s, j + 1), d)
                  ELSE IF s[j] = "}" THEN JsonOk(d, j + 1)
                  ELSE JsonFail

json_value(s, i) ==
  IF i > Len(s) THEN JsonFail
  ELSE IF s[i] = "\"" THEN json_string(s, i)
  ELSE IF s[i] = "{" THEN
    LET j == skip_ws(s, i + 1)
    IN IF j <= Len(s) /\ s[j] = "}" THEN JsonOk(PyDict(<<>>), j + 1)
       ELSE json_members(s, j, PyDict(<<>>))
  ELSE IF s[i] = "[" THEN
    LET j == skip_ws(s, i + 1)
    IN IF j <= Len(s) /\ s[j] = "]" THEN JsonOk(PyList(<<>>), j + 1)
       ELSE json_elements(s, j, <<>>)
  ELSE IF exact_at(<<"n","u","l","l">>, s, i) THEN JsonOk(PyNone, i + 4)
  ELSE IF exact_at(<<"t","r","u","e">>, s, i) THEN JsonOk(PyBool(TRUE), i + 4)
  ELSE IF exact_at(<<"f","a","l","s","e">>, s, i) THEN JsonOk(PyBool(FALSE), i + 5)
  ELSE IF s[i] \in Digits \cup {"-"} THEN json_number(s, i)
  ELSE JsonFail

\* json.loads(s): [ok, val]; ok is FALSE where json.loads raises
json_loads(s) ==
  LET r == json_value(s, skip_ws(s, 1))
  IN IF r.ok /\ skip_ws(s, r.next) > Len(s) THEN r ELSE JsonFail

\* sep.join(parts)
RECURSIVE join(_, _)
join(sep, parts) ==
  IF parts = <<>> THEN <<>>
  ELSE IF Len(parts) = 1 THEN parts[1]
  ELSE parts[1] \o sep \o join(sep, Tail(parts))

RECURSIVE py_repr(_)
\* repr(x); a str is quoted with ' unless it holds a ' and no "
py_repr(x) ==
  IF x.t = "str" THEN
    LET q == IF (\E i \in 1..Len(x.v) : x.v[i] = "'") /\ ~(\E i \in 1..Len(x.v) : x.v[i] = "\"")
             THEN "\"" ELSE "'"
    IN <<q>> \o x.v \o <<q>>
  ELSE IF x.t = "NoneType" THEN <<"N","o","n","e">>
  ELSE IF x.t = "list" THEN
    <<"[">> \o join(<<",", " ">>, [i \in 1..Len(x.v) |-> py_repr(x.v[i])]) \o <<"]">>
  ELSE IF x.t = "dict" THEN
    <<"{">> \o join(<<",", " ">>, [i \in 1..Len(x.v) |->
               py_repr(PyStr(x.v[i].k)) \o <<":", " ">> \o py_repr(x.v[i].x)]) \o <<"}">>
  ELSE x.v

\* str(x)
py_str(x) == IF x.t = "str" THEN x.v ELSE py_repr(x)

RECURSIVE json_dumps(_)
\* json.dumps(x, ensure_ascii=False)
json_dumps(x) ==
  IF x.t = "str" THEN <<"\"">> \o x.v \o <<"\"">>
  ELSE IF x.t = "NoneType" THEN <<"n","u","l","l">>
  ELSE IF x.t = "bool" THEN [i \in 1..Len(x.v) |-> casefold(x.v[i])]
  ELSE IF x.t = "list" THEN
    <<"[">> \o join(<<",", " ">>, [i \in 1..Len(x.v) |-> json_dumps(x.v[i])]) \o <<"]">>
  ELSE IF x.t = "dict" THEN
    <<"{">> \o join(<<",", " ">>, [i \in 1..Len(x.v) |->
               json_dumps(PyStr(x.v[i].k)) \o <<":", " ">> \o json_dumps(x.v[i].x)]) \o <<"}">>
  ELSE x.v

(***************************************************************************)
(* The persona record: JSON repair and field cleaning of                   *)
(* generate_parsverse_profile                                              *)
(***************************************************************************)
K_kingdom == <<"k","i","n","g","d","o","m">>
K_locale == <<"l","o","c","a","l","e">>
K_role == <<"r","o","l","e">>
K_favorite_food == <<"f","a","v","o","r","i","t","e","_","f","o","o","d">>
K_hobby == <<"h","o","b","b","y">>
K_friends == <<"f","r","i","e","n","d","s">>
K_titles == <<"t","i","t","l","e","s">>
K_symbols == <<"s","y","m","b","o","l","s">>
K_artifact == <<"a","r","t","i","f","a","c","t">>
K_appearance == <<"a","p","p","e","a","r","a","n","c","e">>
K_dwelling == <<"d","w","e","l","l","i","n","g">>
K_daily_routine == <<"d","a","i","l","y","_","r","o","u","t","i","n","e">>
K_festival == <<"f","e","s","t","i","v","a","l">>
K_short_story == <<"s","h","o","r","t","_","s","t","o","r","y">>
K_backstory == <<"b","a","c","k","s","t","o","r","y">>
K_motto == <<"m","o","t","t","o">>

\* the keys of the fallback record, in its order
CANONICAL_KEYS ==
  << K_kingdom, K_locale, K_role, K_favorite_food, K_hobby, K_friends, K_titles, K_symbols, K_artifact, K_appearance, K_dwelling, K_daily_routine, K_festival, K_short_story, K_backstory, K_motto >>

starts_with(s, w) == exact_at(w, s, 1)
ends_with(s, w) == Len(w) <= Len(s) /\ exact_at(w, s, Len(s) - Len(w) + 1)
drop(s, n) == SubSeq(s, n + 1, Len(s))

FENCE == <<"bq","bq","bq">>
FENCE_JSON == <<"bq","bq","bq","j","s","o","n">>

_strip_code_fences(s0) ==
  LET s1 == strip(s0)
      s2 == IF starts_with(s1, FENCE_JSON) THEN strip(drop(s1, Len(FENCE_JSON))) ELSE s1
      s3 == IF starts_with(s2, FENCE) THEN strip(drop(s2, Len(FENCE))) ELSE s2
  IN IF ends_with(s3, FENCE) THEN strip(SubSeq(s3, 1, Len(s3) - 3)) ELSE s3

\* the slice that ends at the first "}"
_extract_json_first_close(text) ==
  LET opens == {i \in 1..Len(text) : text[i] = "{"}
      closes == {i \in 1..Len(text) : text[i] = "}"}
      s == IF opens = {} THEN 0 ELSE SetMin(opens)
      e == IF closes = {} THEN 0 ELSE SetMin(closes)
  IN IF s # 0 /\ e # 0 /\ e > s THEN SubSeq(text, s, e) ELSE text

_extract_json(text) ==
  LET opens == {i \in 1..Len(text) : text[i] = "{"}
      closes == {i \in 1..Len(text) : text[i] = "}"}
      s == IF opens = {} THEN 0 ELSE SetMin(opens)
      e == IF closes = {} THEN 0 ELSE CHOOSE j \in closes : \A k \in closes : k <= j
  IN IF s # 0 /\ e # 0 /\ e > s THEN SubSeq(text, s, e) ELSE text

\* smart quotes to straight quotes
straighten_quotes(s) ==
  [i \in 1..Len(s) |->
     IF s[i] \in {"lq", "rq"} THEN "\""
     ELSE IF s[i] \in {"ls", "rs"} THEN "'" ELSE s[i]]

\* what position i of s gives to re.sub(r",\s*([\]}])", r"\1", s): a comma and
\* the whitespace after it go when a closing bracket or brace follows
drop_trailing_commas_from(s, i) ==
  LET ws == Whitespace \cup {"\r"}
      b == IF s[i] \in ws THEN run_start(ws, s, i) ELSE i + 1
      e == b + run_len(ws, s, b)
      closes == e <= Len(s) /\ s[e] \in {"]", "}"}
  IN IF s[i] = "," /\ closes THEN <<>>
     ELSE IF s[i] \in ws /\ b > 1 /\ s[b - 1] = "," /\ closes THEN <<>>
     ELSE <<s[i]>>

drop_trailing_commas(s) ==
  IF \A i \in 1..Len(s) : s[i] # "," THEN s
  ELSE concat_range([i \in 1..Len(s) |-> drop_trailing_commas_from(s, i)] \o <<>>, 1, Len(s))

\* a repair that leaves the trailing commas in
_coerce_json_text_keeps_commas(s) ==
  straighten_quotes(_extract_json(_strip_code_fences(s)))

_coerce_json_text(s) ==
  drop_trailing_commas(straighten_quotes(_extract_json(_strip_code_fences(s))))

\* the record used when the text does not parse
\* a fallback record that leaves the hobby empty
fallback_record_no_hobby(rawtext, hobby) ==
  PyDict([i \in 1..Len(CANONICAL_KEYS) |->
    [k |-> CANONICAL_KEYS[i],
     x |-> IF CANONICAL_KEYS[i] = K_backstory THEN PyStr(rawtext)
           ELSE IF CANONICAL_KEYS[i] \in {K_titles, K_symbols} THEN PyList(<<>>)
           ELSE PyStr(<<>>)]])

fallback_record(rawtext, hobby) ==
  PyDict([i \in 1..Len(CANONICAL_KEYS) |->
    [k |-> CANONICAL_KEYS[i],
     x |-> IF CANONICAL_KEYS[i] = K_hobby THEN hobby
           ELSE IF CANONICAL_KEYS[i] = K_backstory THEN PyStr(rawtext)
           ELSE IF CANONICAL_KEYS[i] \in {K_titles, K_symbols} THEN PyList(<<>>)
           ELSE PyStr(<<>>)]])

\* both json.loads calls raise: on the repaired text and on its outermost
\* {...} slice
parse_fails(rawtext) ==
  LET raw_clean == _coerce_json_text(rawtext)
  IN ~json_loads(raw_clean).ok /\ ~json_loads(_extract_json(raw_clean)).ok

\* data after the two parse attempts and the fallback
parse_profile(rawtext, hobby) ==
  LET raw_clean == _coerce_json_text(rawtext)
      first == json_loads(raw_clean)
      second == json_loads(_extract_json(raw_clean))
  IN IF first.ok THEN first.val
     ELSE IF second.ok THEN second.val
     ELSE fallback_record(rawtext, hobby)

list_like_fields ==
  << K_daily_routine, K_short_story, K_backstory, K_friends,
     K_appearance, K_dwelling, K_festival >>

scalar_fields ==
  << K_kingdom, K_locale, K_role, K_favorite_food, K_hobby, K_friends,
     K_artifact, K_appearance, K_dwelling, K_daily_routine, K_festival,
     K_short_story, K_backstory, K_motto >>

list_fields == << K_titles, K_symbols >>

clean_str(field) == prefer_persian_forms(sanitize_non_iranian(field))

\* for k in list_like_fields: a list becomes "; ".join(str(x) for x in data[k])
RECURSIVE flatten_fields(_, _)
flatten_fields(data, i) ==
  IF i > Len(list_like_fields) THEN data
  ELSE LET k == list_like_fields[i]
           x == dict_get(data, k, PyNone)
           next == IF isinstance(x, "list")
                   THEN dict_set(data, k, PyStr(join(<<";", " ">>, [j \in 1..Len(x.v) |-> py_str(x.v[j])])))
                   ELSE data
       IN \* next is computed before the following field is treated
          IF Len(next.v) >= 0 THEN flatten_fields(next, i + 1) ELSE next

\* for key in scalar fields: a str is cleaned
RECURSIVE clean_scalars(_, _)
clean_scalars(data, i) ==
  IF i > Len(scalar_fields) THEN data
  ELSE LET k == scalar_fields[i]
           x == dict_get(data, k, PyNone)
           next == IF dict_has(data, k) /\ isinstance(x, "str")
                   THEN dict_set(data, k, PyStr(clean_str(x.v)))
                   ELSE data
       IN \* next is computed before the following field is treated
          IF Len(next.v) >= 0 THEN clean_scalars(next, i + 1) ELSE next

\* a pass that cleans no list
clean_lists_skipped(data, i) == data

\* for key in ["titles", "symbols"]: a list has each element cleaned
RECURSIVE clean_lists(_, _)
clean_lists(data, i) ==
  IF i > Len(list_fields) THEN data
  ELSE LET k == list_fields[i]
           x == dict_get(data, k, PyNone)
           next == IF dict_has(data, k) /\ isinstance(x, "list")
                   THEN dict_set(data, k, PyList([j \in 1..Len(x.v) |-> PyStr(clean_str(py_str(x.v[j])))]))
                   ELSE data
       IN \* next is computed before the following field is treated
          IF Len(next.v) >= 0 THEN clean_lists(next, i + 1) ELSE next

as_text(v) ==
  IF isinstance(v, "list") THEN join(<<" ">>, [j \in 1..Len(v.v) |-> py_str(v.v[j])])
  ELSE IF isinstance(v, "dict") THEN json_dumps(v)
  ELSE IF isinstance(v, "NoneType") THEN <<>>
  ELSE py_str(v)

\* the text the banned check of the persona reads
concat_fields(data) ==
  join(<<" ">>, [i \in 1..Len(CANONICAL_KEYS) |->
    as_text(dict_get(data, CANONICAL_KEYS[i],
                     IF CANONICAL_KEYS[i] \in {K_titles, K_symbols}
                     THEN PyList(<<>>) ELSE PyStr(<<>>)))])

\* the record of one attempt, cleaned (data is a dict)
clean_profile(data) == clean_lists(clean_scalars(flatten_fields(data, 1), 1), 1)

(***************************************************************************)
(* The generators: generate_parsverse_myth, generate_parsverse_story and   *)
(* generate_parsverse_profile, one request per behaviour                   *)
(***************************************************************************)
max_tries == 3

\* no value: the function has not returned
NoResult == [t |-> "unset", v |-> <<>>]

\* a validation that rejects None only
falsy_none_only(x) == x = None

\* not x, for a str or None
falsy(x) == x = None \/ x = <<>>

\* _get_client() returns a client: the provider is supported, and its client is
\* cached or its API key is set
client_available ==
  /\ PROVIDER \in {"openai", "groq"}
  /\ \/ (PROVIDER = "openai" /\ _openai_client)
     \/ (PROVIDER = "groq" /\ _groq_client)
     \/ key_set

\* the module-level cache after a successful _get_client()
cache_client ==
  /\ _openai_client' = (_openai_client \/ PROVIDER = "openai")
  /\ _groq_client' = (_groq_client \/ PROVIDER = "groq")

\* the outcome of one attempt on the stripped completion text raw:
\* [raises, cleaned, checked]: cleaned is what the attempt keeps as its last
\* result, checked the text its banned check reads
\* an attempt that applies the Persian forms to the raw text, unscrubbed
text_attempt_unscrubbed(rawtext) ==
  LET cleaned == prefer_persian_forms(rawtext)
  IN [raises |-> FALSE, cleaned |-> PyStr(cleaned), checked |-> cleaned]

text_attempt(rawtext) ==
  LET cleaned == prefer_persian_forms(sanitize_non_iranian(rawtext))
  IN [raises |-> FALSE, cleaned |-> PyStr(cleaned), checked |-> cleaned]

profile_attempt(rawtext, hobby) ==
  LET data == parse_profile(rawtext, hobby)
  IN IF ~isinstance(data, "dict")
     THEN [raises |-> TRUE, cleaned |-> PyNone, checked |-> <<>>]
     ELSE LET cleaned == clean_profile(data)
          IN [raises |-> FALSE, cleaned |-> cleaned, checked |-> concat_fields(cleaned)]

attempt_outcome(task, rawtext, hobby) ==
  IF task = "profile" THEN profile_attempt(rawtext, hobby) ELSE text_attempt(rawtext)

\* a check with its negation lost
passes_check_inverted(out) == contains_banned(out.checked)

\* if not contains_banned(cleaned) / if not contains_banned(last_concat)
passes_check(out) == ~contains_banned(out.checked)

\* the record returned when the persona loop ends with nothing kept
FailedRecord ==
  PyDict(<< [k |-> K_backstory, x |-> PyStr(<<"G","e","n","e","r","a","t","i","o","n"," ","f","a","i","l","e","d"," ","a","f","t","e","r"," ","r","e","t","r","i","e","s","."," ","P","l","e","a","s","e"," ","t","r","y"," ","a","g","a","i","n",".">>)],
            [k |-> K_short_story, x |-> PyStr(<<>>)] >>)

\* an exit that reports the failure whatever the loop kept
exhausted_result_failed(task, kept) == FailedRecord

\* return last_text / return last_data or {...}
exhausted_result(task, kept) ==
  IF task = "profile"
     /\ (isinstance(kept, "NoneType") \/ (isinstance(kept, "dict") /\ Len(kept.v) = 0))
  THEN FailedRecord
  ELSE kept

(***************************************************************************)
(* Texts: the concatenations of at most n fragments of prose               *)
(***************************************************************************)
RECURSIVE Concats(_, _)
Concats(frags, n) ==
  IF n = 0 THEN {<<>>}
  ELSE LET shorter == Concats(frags, n - 1)
       IN shorter \cup {t \o f : t \in shorter, f \in frags}

MaxFragments == 3

PolicyFragments ==
  { <<"s">>,
    <<"k","a","r","m","a">>,
    <<" ","k","a","r","m","a"," ">>,
    <<"V","e","d","a">>,
    <<"k","s","h","a","t","r","a">>,
    <<" ">>,
    <<"\t">>,
    <<"\n","\n","\n">>,
    <<"-">>,
    <<"C","y","r","u","s">> }

PolicyTexts == Concats(PolicyFragments, MaxFragments)

(***************************************************************************)
(* What the completion collaborator may answer                             *)
(***************************************************************************)
MaxRawFragments == 2

\* prose, for the myth and the chronicle
TextContents == Concats(PolicyFragments, MaxRawFragments)

MaxFields == 1

\* the text of one member of a JSON object
member(k, x) == <<"\"">> \o k \o <<"\"", ":", " ">> \o x

\* members of an answer: a string and a list where a string is expected, a
\* string and a list where a list is expected, a list and an object where a
\* list-like text is expected
PersonaFields ==
  { member(K_kingdom, <<"\"","C","y","r","u","s"," ","k","a","r","m","a","\"">>),
    member(K_kingdom, <<"[","\"","k","a","r","m","a","\"",","," ","\"","s","\"","]">>),
    member(K_titles, <<"\"","a"," ","k","a","r","m","a","\"">>),
    member(K_titles, <<"[","\"","k","a","r","m","a","\"",","," ","n","u","l","l","]">>),
    member(K_friends, <<"[","\"","k","a","r","m","a","\"",","," ","7","]">>),
    member(K_friends, <<"{","\"","a","\"",":"," ","\"","k","a","r","m","a","\"","}">>) }

RECURSIVE FieldLists(_)
FieldLists(n) ==
  IF n = 0 THEN {<<>>}
  ELSE LET shorter == FieldLists(n - 1)
       IN shorter \cup {Append(fs, f) : fs \in shorter, f \in PersonaFields}

\* a JSON object as the model writes it: plain, and with a trailing comma
\* inside a code fence after a preface
PersonaObjects ==
  UNION { LET body == join(<<",", " ">>, fs)
          IN { <<"{">> \o body \o <<"}">>,
               <<"S","u","r","e","!"," ","bq","bq","bq","j","s","o","n","\n","{">> \o body \o <<",","}","\n","bq","bq","bq">> }
        : fs \in FieldLists(MaxFields) }

\* answers that are no JSON object: other JSON values, prose, nothing, a
\* truncated object
PersonaNonObjects ==
  { <<"[","]">>,
    <<"n","u","l","l">>,
    <<"\"","k","a","r","m","a","\"">>,
    <<"7">>,
    <<"k","a","r","m","a"," ","s">>,
    <<>>,
    <<"{","\"","k","i","n","g","d","o","m","\"",":"," ","\"","s","\"">>,
    <<"[","\"","k","a","r","m","a","\"","]">> }

PersonaContents == PersonaObjects \cup PersonaNonObjects

Contents(task) == IF task = "profile" THEN PersonaContents ELSE TextContents

(***************************************************************************)
(* Depth helpers.  A detail level is given in halves (3 is 1.5), as int()  *)
(* truncates it                                                            *)
(***************************************************************************)
Max(a, b) == IF a >= b THEN a ELSE b
Min(a, b) == IF a <= b THEN a ELSE b

\* int(x) for x = halves / 2: truncation towards zero
py_int(halves) == IF halves >= 0 THEN halves \div 2 ELSE -((-halves) \div 2)

\* a budget that forgets the cap
_length_for_uncapped(detail_level, base, step, cap) ==
  LET clamped == Max(1, Min(3, py_int(detail_level)))
  IN base + (clamped - 1) * step

_length_for(detail_level, base, step, cap) ==
  LET clamped == Max(1, Min(3, py_int(detail_level)))
  IN Min(cap, base + (clamped - 1) * step)

\* budgets with the constants of the myth for every task
max_tokens_for_myth_only(task, detail_level) ==
  _length_for(detail_level, 320, 180, 1200)

\* max_tokens = _length_for(detail_level, base=..., step=..., cap=...)
max_tokens_for(task, detail_level) ==
  CASE task = "myth" -> _length_for(detail_level, 320, 180, 1200)
    [] task = "story" -> _length_for(detail_level, 700, 300, 1800)
    [] task = "profile" -> _length_for(detail_level, 950, 120, 1400)

\* temperature=..., in hundredths
temperature(task) ==
  CASE task = "myth" -> 85
    [] task = "story" -> 88
    [] task = "profile" -> 70

\* client.chat.completions.create(messages=[prompt], temperature, max_tokens)
completion_request(task, p) ==
  [revisions |-> p.revisions, region |-> p.region,
   temperature |-> temperature(task), max_tokens |-> p.max_tokens]

\* a retry that sends the prompt as it was
revised_lost(p) == p

\* prompt += "\n\nREVISION ..."
revised(p) == [p EXCEPT !.revisions = @ + 1]

Names == { <<>>, None, <<"R">> }
Regions == { <<>>, None, <<"A","t","l","a","n","t","i","s">> }
Hobbies == { <<"V","e","d","a"," ","s">> }

\* detail_level 3, in halves
RequestDetailLevels == {6}

Requests ==
  [task : {"myth", "story", "profile"}, name : Names, region : Regions, hobby : Hobbies,
   detail_level : RequestDetailLevels]

\* the environment of the process: provider and whether its API key is set
Environments ==
  { [provider |-> "groq", key |-> TRUE], [provider |-> "groq", key |-> FALSE],
    [provider |-> "openai", key |-> TRUE], [provider |-> "other", key |-> TRUE] }

(***************************************************************************)
(* The policy harness and the generators share one state; each             *)
(* specification leaves the other's variables alone                        *)
(***************************************************************************)
harness_vars == <<arg, val, prev, hist>>
loop_vars == <<PROVIDER, key_set, _openai_client, _groq_client, req, pc, prompt,
               tries, calls, lookups, raw, last, result, error, failure>>

HarnessIdle ==
  /\ arg = <<>>
  /\ val = <<>>
  /\ prev = <<>>
  /\ hist = <<>>

LoopIdle ==
  /\ PROVIDER = "groq"
  /\ key_set = TRUE
  /\ _openai_client = FALSE
  /\ _groq_client = FALSE
  /\ req = [task |-> "none", name |-> None, region |-> None, hobby |-> None,
            detail_level |-> 0]
  /\ pc = "idle"
  /\ prompt = [region |-> None, revisions |-> 0, max_tokens |-> 0]
  /\ tries = 0
  /\ calls = 0
  /\ lookups = 0
  /\ raw = <<>>
  /\ last = PyNone
  /\ result = NoResult
  /\ error = "none"
  /\ failure = "none"

Init ==
  /\ TRANSLIT_MODE \in {"modern", "old_persian"}
  /\ \E env \in Environments : PROVIDER = env.provider /\ key_set = env.key
  /\ _openai_client = FALSE
  /\ _groq_client = FALSE
  /\ req \in Requests
  /\ pc = "start"
  /\ prompt = [region |-> None, revisions |-> 0, max_tokens |-> 0]
  /\ tries = 0
  /\ calls = 0
  /\ lookups = 0
  /\ raw = <<>>
  /\ last = PyNone
  /\ result = NoResult
  /\ error = "none"
  /\ failure = "none"
  /\ HarnessIdle

\* lines 486-525, 566-606, 650-660: validation, the prompt, the loop's locals
Validate ==
  /\ pc = "start"
  /\ IF falsy(req.name) \/ falsy(req.region)
     THEN /\ pc' = "raised"
          /\ error' = "ValueError"
          /\ UNCHANGED <<prompt, last>>
     ELSE /\ pc' = "loop"
          /\ prompt' = [region |-> _normalize_region(req.region), revisions |-> 0,
                       max_tokens |-> max_tokens_for(req.task, req.detail_level)]
          /\ last' = IF req.task = "profile" THEN PyNone ELSE PyStr(<<>>)
          /\ UNCHANGED error
  /\ UNCHANGED <<PROVIDER, key_set, _openai_client, _groq_client, req, tries,
                 calls, lookups, raw, result, failure>>
  /\ UNCHANGED <<TRANSLIT_MODE, arg, val, prev, hist>>

\* an iteration in which _get_client() raises RuntimeError
ClientFails ==
  /\ pc = "loop"
  /\ tries < max_tries
  /\ ~client_available
  /\ lookups' = lookups + 1
  /\ pc' = "raised"
  /\ error' = "RuntimeError"
  /\ failure' = "credential"
  /\ UNCHANGED <<PROVIDER, key_set, _openai_client, _groq_client, req, prompt,
                 tries, calls, raw, last, result>>
  /\ UNCHANGED <<TRANSLIT_MODE, arg, val, prev, hist>>

\* a loop that swallows the completion call's error and goes on to the next
\* iteration
CompletionFails_retried ==
  /\ pc = "loop"
  /\ tries < max_tries
  /\ client_available
  /\ cache_client
  /\ lookups' = lookups + 1
  /\ calls' = calls + 1
  /\ tries' = tries + 1
  /\ failure' = "transport"
  /\ UNCHANGED <<PROVIDER, key_set, req, prompt, pc, error, raw, last, result>>
  /\ hist' = Append(hist, completion_request(req.task, prompt))
  /\ UNCHANGED <<TRANSLIT_MODE, arg, val, prev>>

\* an iteration in which the completion call raises
CompletionFails ==
  /\ pc = "loop"
  /\ tries < max_tries
  /\ client_available
  /\ cache_client
  /\ lookups' = lookups + 1
  /\ calls' = calls + 1
  /\ pc' = "raised"
  /\ error' = "ProviderError"
  /\ failure' = "transport"
  /\ UNCHANGED <<PROVIDER, key_set, req, prompt, tries, raw, last, result>>
  /\ hist' = Append(hist, completion_request(req.task, prompt))
  /\ UNCHANGED <<TRANSLIT_MODE, arg, val, prev>>

\* an iteration in which the completion call answers content
Attempt ==
  /\ pc = "loop"
  /\ tries < max_tries
  /\ client_available
  /\ cache_client
  /\ lookups' = lookups + 1
  /\ calls' = calls + 1
  /\ \E content \in Contents(req.task) :
     \E out \in {attempt_outcome(req.task, strip(content), PyStr(req.hobby))} :
          /\ raw' = strip(content)
          /\ IF out.raises
             THEN /\ pc' = "raised"
                  /\ error' = "AttributeError"
                  /\ UNCHANGED <<last, result, prompt, tries>>
             ELSE /\ last' = out.cleaned
                  /\ IF passes_check(out)
                     THEN /\ pc' = "returned"
                          /\ result' = out.cleaned
                          /\ UNCHANGED <<prompt, tries>>
                     ELSE /\ pc' = "loop"
                          /\ prompt' = revised(prompt)
                          /\ tries' = tries + 1
                          /\ UNCHANGED result
                  /\ UNCHANGED error
  /\ UNCHANGED <<PROVIDER, key_set, req, failure>>
  /\ hist' = Append(hist, completion_request(req.task, prompt))
  /\ UNCHANGED <<TRANSLIT_MODE, arg, val, prev>>

\* the loop has run max_tries times: return last_text / last_data
Exhausted ==
  /\ pc = "loop"
  /\ tries = max_tries
  /\ pc' = "returned"
  /\ result' = exhausted_result(req.task, last)
  /\ UNCHANGED <<PROVIDER, key_set, _openai_client, _groq_client, req, prompt,
                 tries, calls, lookups, raw, last, error, failure>>
  /\ UNCHANGED <<TRANSLIT_MODE, arg, val, prev, hist>>

Next == Validate \/ ClientFails \/ CompletionFails \/ Attempt \/ Exhausted

Spec == Init /\ [][Next]_vars

(***************************************************************************)
(* The policy passes applied to a text, one after the other                *)
(***************************************************************************)
PolicyInit ==
  /\ TRANSLIT_MODE \in {"modern", "old_persian"}
  /\ arg \in PolicyTexts
  /\ val = arg
  /\ prev = arg
  /\ hist = <<>>
  /\ LoopIdle

ApplySanitize ==
  /\ Len(hist) < 2
  /\ prev' = val
  /\ val' = sanitize_non_iranian(val)
  /\ hist' = Append(hist, "sanitize")
  /\ UNCHANGED <<TRANSLIT_MODE, arg>>
  /\ UNCHANGED loop_vars

ApplyPrefer ==
  /\ Len(hist) < 2
  /\ prev' = val
  /\ val' = prefer_persian_forms(val)
  /\ hist' = Append(hist, "prefer")
  /\ UNCHANGED <<TRANSLIT_MODE, arg>>
  /\ UNCHANGED loop_vars

PolicyNext == ApplySanitize \/ ApplyPrefer

PolicySpec == PolicyInit /\ [][PolicyNext]_vars

(***************************************************************************)
(* _normalize_region applied to a region string                            *)
(***************************************************************************)
MaxRegionFragments == 2

RegionFragments ==
  KNOWN_REGIONS \cup
  { <<" ">>, <<"\n">>,
    <<"A","t","l","a","n","t","i","s">>,
    <<"p","e","r","s","i","s">> }

RegionInputs == Concats(RegionFragments, MaxRegionFragments) \cup {None}

RegionInit ==
  /\ TRANSLIT_MODE = "modern"
  /\ arg \in RegionInputs
  /\ val = arg
  /\ prev = arg
  /\ hist = <<>>
  /\ LoopIdle

ApplyNormalizeRegion ==
  /\ hist = <<>>
  /\ prev' = val
  /\ val' = _normalize_region(val)
  /\ hist' = <<"_normalize_region">>
  /\ UNCHANGED <<TRANSLIT_MODE, arg>>
  /\ UNCHANGED loop_vars

RegionNext == ApplyNormalizeRegion

RegionSpec == RegionInit /\ [][RegionNext]_vars

(***************************************************************************)
(* _length_for applied to detail levels for one base, step and cap         *)
(***************************************************************************)
MaxBudget == 3

Budgets == (0 - 1)..MaxBudget

\* detail levels 0, 0.5, 1, ... 4, in halves
DetailLevels == 0..8

LengthInit ==
  /\ TRANSLIT_MODE = "modern"
  /\ arg \in [base : Budgets, step : Budgets, cap : Budgets]
  /\ val = {}
  /\ prev = {}
  /\ hist = <<>>
  /\ LoopIdle

\* one more call of _length_for with the same base, step and cap
ApplyLengthFor ==
  /\ Len(hist) < 3
  /\ \E d \in DetailLevels :
       /\ \A e \in val : e.detail_level # d
       /\ \A i \in 1..Len(hist) : hist[i] < d
       /\ val' = val \cup {[detail_level |-> d, n |-> _length_for(d, arg.base, arg.step, arg.cap)]}
       /\ hist' = Append(hist, d)
  /\ prev' = val
  /\ UNCHANGED <<TRANSLIT_MODE, arg>>
  /\ UNCHANGED loop_vars

LengthNext == ApplyLengthFor

LengthSpec == LengthInit /\ [][LengthNext]_vars

(***************************************************************************)
(* The persona coercion applied to one completion text: lines 682-776 of   *)
(* generate_parsverse_profile on the text of one answer                    *)
(***************************************************************************)
MaxCoerceFields == 1

\* members of a well-formed object, each with the text it has when a trailing
\* comma is injected before the closing bracket of its list
CoerceMembers ==
  { [plain |-> member(K_kingdom, <<"\"","M","e","d","i","a","n","\"">>),
     injected |-> member(K_kingdom, <<"\"","M","e","d","i","a","n","\"">>)],
    [plain |-> member(K_titles, <<"[","\"","a","\"",","," ","\"","b","\"","]">>),
     injected |-> member(K_titles, <<"[","\"","a","\"",","," ","\"","b","\"",",","]">>)],
    [plain |-> member(K_kingdom, <<"[","\"","k","a","r","m","a","\"",","," ","\"","s","\"","]">>),
     injected |-> member(K_kingdom, <<"[","\"","k","a","r","m","a","\"",","," ","\"","s","\"",","," ","]">>)],
    [plain |-> member(K_friends, <<"[","\"","k","a","r","m","a","\"",","," ","7","]">>),
     injected |-> member(K_friends, <<"[","\"","k","a","r","m","a","\"",","," ","7",",","]">>)],
    [plain |-> member(K_motto, <<"\"","C","y","r","u","s",","," ","}","\"">>),
     injected |-> member(K_motto, <<"\"","C","y","r","u","s",","," ","}","\"">>)] }

RECURSIVE MemberLists(_)
MemberLists(n) ==
  IF n = 0 THEN {<<>>}
  ELSE LET shorter == MemberLists(n - 1)
       IN shorter \cup {Append(ms, m) : ms \in shorter, m \in CoerceMembers}

\* the well-formed object of the members
plain_object(ms) ==
  <<"{">> \o join(<<",", " ">>, [i \in 1..Len(ms) |-> ms[i].plain]) \o <<"}">>

\* the object with a trailing comma before every closing bracket and brace
injected_object(ms) ==
  <<"{">> \o join(<<",", " ">>, [i \in 1..Len(ms) |-> ms[i].injected]) \o <<",", "\n", "}">>

Wraps == {"plain", "fence", "bare_fence", "prose", "prose_fence", "brace_prose"}

\* an answer around the object text o
wrapped(wrap, o) ==
  CASE wrap = "plain" -> o
    [] wrap = "fence" -> <<"bq","bq","bq","j","s","o","n","\n">> \o o \o <<"\n","bq","bq","bq">>
    [] wrap = "bare_fence" -> <<"bq","bq","bq","\n">> \o o \o <<"\n","bq","bq","bq">>
    [] wrap = "prose" -> <<"H","e","r","e"," ","i","s"," ","t","h","e"," ","J","S","O","N",":"," ">> \o o \o <<" ","E","n","j","o","y",".">>
    [] wrap = "prose_fence" -> <<"S","u","r","e","!"," ","bq","bq","bq","j","s","o","n","\n">> \o o \o <<"\n","bq","bq","bq">>
    [] wrap = "brace_prose" -> <<"H","e","r","e"," ","i","s"," ","{","J","S","O","N","}",":"," ">> \o o

\* the answers: objects, wrapped and with commas injected or not, and the
\* answers that are no object
CoerceAnswers ==
  [kind : {"object"}, members : MemberLists(MaxCoerceFields), wrap : Wraps, comma : BOOLEAN, text : {<<>>}]
  \cup [kind : {"other"}, members : {<<>>}, wrap : {"plain"}, comma : {FALSE}, text : PersonaNonObjects]

\* message.content of an answer
content_of(answer) ==
  IF answer.kind = "other" THEN answer.text
  ELSE wrapped(answer.wrap,
               IF answer.comma THEN injected_object(answer.members)
               ELSE plain_object(answer.members))

CoerceHobbies == { <<>>, <<"V","e","d","a"," ","s">> }

\* what lines 682-776 compute from the stripped text of an answer
coercion(rawtext, hobby) ==
  LET data == parse_profile(rawtext, hobby)
  IN IF ~isinstance(data, "dict")
     THEN [raises |-> TRUE, data |-> data, flattened |-> PyNone, cleaned |-> PyNone]
     ELSE [raises |-> FALSE, data |-> data, flattened |-> flatten_fields(data, 1),
           cleaned |-> clean_profile(data)]

CoerceInit ==
  /\ TRANSLIT_MODE \in {"modern", "old_persian"}
  /\ arg \in [answer : CoerceAnswers, hobby : CoerceHobbies]
  /\ val = PyNone
  /\ prev = <<>>
  /\ hist = <<>>
  /\ LoopIdle

ApplyCoercion ==
  /\ hist = <<>>
  /\ prev' = strip(content_of(arg.answer))
  /\ \E out \in {coercion(strip(content_of(arg.answer)), PyStr(arg.hobby))} : val' = out
  /\ hist' = <<"coercion">>
  /\ UNCHANGED <<TRANSLIT_MODE, arg>>
  /\ UNCHANGED loop_vars

CoerceNext == ApplyCoercion

CoerceSpec == CoerceInit /\ [][CoerceNext]_vars

(***************************************************************************)
(* generate_image_png_bytes: the image provider, its key and its answers   *)
(***************************************************************************)
MaxImageCalls == 2

\* IMG_PROVIDER, whether the provider's key is in the environment, and the
\* negative_prompt argument
ImageCalls ==
  [provider : {"openai", "xai", "huggingface", "other"},
   key : BOOLEAN,
   negative_prompt : {None, <<>>, <<"t","e","x","t">>}]

\* what client.images.generate does: it raises (an error status, a timeout),
\* or answers an image, no image, or text that is no base64
ImageResponses == {"error", "image", "empty", "malformed"}

\* what session.post does: it raises (a timeout, no connection), or answers an
\* image, a 200 with a JSON body, or an error status
SessionResponses == {"error", "image", "json", "status"}

\* _openai_img_client, _xai_img_client, _hf_session before the first call
NoImageClients == [openai |-> FALSE, xai |-> FALSE, huggingface |-> FALSE]

\* _get_image_client(): the provider, or None, and the cached clients after it
_get_image_client(provider, key, clients) ==
  IF provider \in {"openai", "xai", "huggingface"} /\ key
  THEN [provider |-> provider, clients |-> [clients EXCEPT ![provider] = TRUE]]
  ELSE [provider |-> "None", clients |-> clients]

\* negative_text = negative_prompt or ""
negative_text(negative_prompt) == IF falsy(negative_prompt) THEN <<>> ELSE negative_prompt

\* the request of the openai and xai branches: "\nAvoid: ..." is appended when
\* negative_text is not empty
images_request(provider, negative_prompt) ==
  [provider |-> provider,
   avoid |-> negative_text(negative_prompt),
   sized |-> provider = "openai"]

\* the request of the huggingface branch
session_request(negative_prompt) ==
  [provider |-> "huggingface",
   avoid |-> negative_text(negative_prompt),
   sized |-> FALSE]

\* lines 817-824, 828-834: no try around the call or around b64decode
images_outcome(response) ==
  CASE response = "error" -> "raised"
    [] response = "image" -> "bytes"
    [] response = "empty" -> "None"
    [] response = "malformed" -> "raised"

\* lines 847-855: every exception and every answer that is no image give None
session_outcome(response) ==
  IF response = "image" THEN "bytes" ELSE "None"

ImageInit ==
  /\ TRANSLIT_MODE = "modern"
  /\ arg \in ImageCalls
  /\ val = [calls |-> 0, response |-> "unset", out |-> "unset"]
  /\ prev = NoImageClients
  /\ hist = <<>>
  /\ LoopIdle

\* lines 804-806: no provider, or no key for it
ImageNoClient ==
  /\ val.calls < MaxImageCalls
  /\ _get_image_client(arg.provider, arg.key, prev).provider = "None"
  /\ val' = [calls |-> val.calls + 1, response |-> "no_client", out |-> "None"]
  /\ UNCHANGED <<TRANSLIT_MODE, arg, prev, hist>>
  /\ UNCHANGED loop_vars

\* lines 814-834: the openai and the xai branch
ImageFromImagesApi ==
  /\ val.calls < MaxImageCalls
  /\ \E got \in {_get_image_client(arg.provider, arg.key, prev)} :
       /\ got.provider \in {"openai", "xai"}
       /\ prev' = got.clients
       /\ hist' = Append(hist, images_request(got.provider, arg.negative_prompt))
       /\ \E response \in ImageResponses :
            val' = [calls |-> val.calls + 1, response |-> response,
                    out |-> images_outcome(response)]
  /\ UNCHANGED <<TRANSLIT_MODE, arg>>
  /\ UNCHANGED loop_vars

\* lines 836-855: the huggingface branch
ImageFromSession ==
  /\ val.calls < MaxImageCalls
  /\ \E got \in {_get_image_client(arg.provider, arg.key, prev)} :
       /\ got.provider = "huggingface"
       /\ prev' = got.clients
       /\ hist' = Append(hist, session_request(arg.negative_prompt))
       /\ \E response \in SessionResponses :
            val' = [calls |-> val.calls + 1, response |-> response,
                    out |-> session_outcome(response)]
  /\ UNCHANGED <<TRANSLIT_MODE, arg>>
  /\ UNCHANGED loop_vars

ImageNext == ImageNoClient \/ ImageFromImagesApi \/ ImageFromSession

ImageSpec == ImageInit /\ [][ImageNext]_vars

(***************************************************************************)
(* The length budget of a request: max_tokens for a task and detail level  *)
(***************************************************************************)
MaxDetailHalves == 14

\* detail levels -2, -1.5, ... up to MaxDetailHalves / 2, in halves
BudgetCalls ==
  [task : {"myth", "story", "profile"}, detail_level : (0 - 4)..MaxDetailHalves]

BudgetInit ==
  /\ TRANSLIT_MODE = "modern"
  /\ arg \in BudgetCalls
  /\ val = 0
  /\ prev = 0
  /\ hist = <<>>
  /\ LoopIdle

\* lines 523, 604, 660: max_tokens is set before the loop
SetMaxTokens ==
  /\ hist = <<>>
  /\ val' = max_tokens_for(arg.task, arg.detail_level)
  /\ hist' = <<"max_tokens">>
  /\ UNCHANGED <<TRANSLIT_MODE, arg, prev>>
  /\ UNCHANGED loop_vars

BudgetNext == SetMaxTokens

BudgetSpec == BudgetInit /\ [][BudgetNext]_vars

(***************************************************************************)
(* The prompt helpers, each applied to one argument: _strictness_clause,   *)
(* _age_band and the negative description of a persona portrait            *)
(***************************************************************************)
MaxStrictness == 120

\* a clause that puts the boundary values in the milder band
_strictness_clause_above(strictness) ==
  LET clamped == Max(0, Min(100, strictness))
  IN IF clamped > 80 THEN "rigorous"
     ELSE IF clamped > 50 THEN "grounded"
     ELSE "poetic"

\* strictness in hundredths; each clause is named by its first adjective
_strictness_clause(strictness) ==
  LET clamped == Max(0, Min(100, strictness))
  IN IF clamped >= 80 THEN "rigorous"
     ELSE IF clamped >= 50 THEN "grounded"
     ELSE "poetic"

\* strictness -0.2, -0.19, ... up to MaxStrictness / 100
StrictnessCalls == [op : {"strictness"}, strictness : (0 - 20)..MaxStrictness]

MaxAge == 62

\* bands that begin one year late
_age_band_late(a) ==
  IF a <= 15 THEN [band |-> "child", neg |-> <<"teen", "adult", "elderly", "wrinkles", "grey hair">>]
  ELSE IF a <= 20 THEN [band |-> "late-teen", neg |-> <<"child", "elderly", "wrinkles", "grey hair">>]
  ELSE IF a <= 26 THEN [band |-> "young adult", neg |-> <<"elderly", "wrinkles", "grey hair">>]
  ELSE IF a <= 45 THEN [band |-> "adult", neg |-> <<>>]
  ELSE IF a <= 60 THEN [band |-> "middle-aged adult", neg |-> <<"child", "teen", "baby-face">>]
  ELSE [band |-> "elder", neg |-> <<"child", "teen", "baby-face", "youthful">>]

\* _age_band(age) for an int: the description and the exclusion terms
_age_band(a) ==
  IF a <= 14 THEN [band |-> "child", neg |-> <<"teen", "adult", "elderly", "wrinkles", "grey hair">>]
  ELSE IF a <= 19 THEN [band |-> "late-teen", neg |-> <<"child", "elderly", "wrinkles", "grey hair">>]
  ELSE IF a <= 25 THEN [band |-> "young adult", neg |-> <<"elderly", "wrinkles", "grey hair">>]
  ELSE IF a <= 44 THEN [band |-> "adult", neg |-> <<>>]
  ELSE IF a <= 59 THEN [band |-> "middle-aged adult", neg |-> <<"child", "teen", "baby-face">>]
  ELSE [band |-> "elder", neg |-> <<"child", "teen", "baby-face", "youthful">>]

\* ages -2, -1, ... up to MaxAge
AgeCalls == [op : {"age"}, age : (0 - 2)..MaxAge]

K_gender == <<"g","e","n","d","e","r">>
K_age == <<"a","g","e">>

\* the value of an int from its digits
RECURSIVE int_of(_)
int_of(digits) ==
  IF digits = <<>> THEN 0
  ELSE 10 * int_of(SubSeq(digits, 1, Len(digits) - 1))
       + (CHOOSE d \in 0..9 : ToString(d) = digits[Len(digits)])

\* bool(x) is False
py_falsy(x) ==
  \/ isinstance(x, "NoneType")
  \/ (x.t \in {"str", "list", "dict"} /\ x.v = <<>>)
  \/ (isinstance(x, "int") /\ int_of(x.v) = 0)
  \/ x = PyBool(FALSE)

\* str.lower()
lower(s) == [i \in 1..Len(s) |-> casefold(s[i])]

\* list(dict.fromkeys(seq)): the first occurrence of each term, in order
dedupe(seq) ==
  LET firsts == {i \in 1..Len(seq) : \A j \in 1..(i - 1) : seq[j] # seq[i]}
      nth(k) == CHOOSE i \in firsts : Cardinality({j \in firsts : j < i}) = k - 1
  IN [k \in 1..Cardinality(firsts) |-> seq[nth(k)]]

BASE_NEGATIVE ==
  << "text", "watermark", "signature", "modern clothing", "guns", "anime", "3d render",
     "photo", "low quality", "blurry", "extra limbs", "deformed hands", "jpeg artifacts" >>

\* gender_pos and gender_neg for the stripped, lowered gender
gender_terms(gender) ==
  IF starts_with(gender, <<"f">>)
  THEN [pos |-> "female",
        neg |-> <<"male", "man", "masculine", "beard", "moustache", "stubble", "broad jawline">>]
  ELSE IF starts_with(gender, <<"m">>)
  THEN [pos |-> "male", neg |-> <<"female", "woman">>]
  ELSE [pos |-> "person", neg |-> <<>>]

\* the negative description with the age terms ahead of the gender terms
negative_of_age_first(base, gender_neg, age_neg) ==
  LET negative_list == dedupe(base \o age_neg \o gender_neg)
  IN join(<<", ">>, [i \in 1..Len(negative_list) |-> <<negative_list[i]>>])

\* ", ".join(dict.fromkeys(negative_list)): a term or a ", " per element
negative_of(base, gender_neg, age_neg) ==
  LET negative_list == dedupe(base \o gender_neg \o age_neg)
  IN join(<<", ">>, [i \in 1..Len(negative_list) |-> <<negative_list[i]>>])

\* build_image_prompts_from_profile(profile): the subject of the positive
\* prompt and the negative description, a term or a ", " per element;
\* .strip() raises on a gender that is truthy and no str
build_image_prompts_from_profile(profile) ==
  LET g == dict_get(profile, K_gender, PyStr(<<>>))
      a == dict_get(profile, K_age, PyInt(<<"0">>))
      age == IF isinstance(a, "int") THEN int_of(a.v)
             ELSE IF isinstance(a, "bool") THEN (IF a = PyBool(TRUE) THEN 1 ELSE 0)
             ELSE 0
      band == _age_band(age)
      gender == gender_terms(IF py_falsy(g) \/ ~isinstance(g, "str") THEN <<>> ELSE lower(strip(g.v)))
  IN IF ~py_falsy(g) /\ ~isinstance(g, "str")
     THEN [raises |-> TRUE, gender_pos |-> "", age_text |-> "", negative |-> <<>>]
     ELSE [raises |-> FALSE, gender_pos |-> gender.pos, age_text |-> band.band,
           negative |-> negative_of(BASE_NEGATIVE, gender.neg, band.neg)]

\* the gender and the age of a record: absent, or a value
PortraitGenders ==
  { PyStr(<<"F","e","m","a","l","e">>), PyStr(<<" ","m">>), PyStr(<<"o","t","h","e","r">>),
    PyStr(<<>>), PyNone, PyInt(<<"7">>) }

MaxAgeDigit == 7

PortraitAges ==
  { PyInt(<<ToString(d), "0">>) : d \in 0..MaxAgeDigit } \cup
  { PyInt(<<"1","7">>), PyStr(<<"3","0">>), PyBool(TRUE), PyNone }

\* records with a gender or not, with an age or not
Portraits ==
  { PyDict(gs \o as) :
      gs \in {<<>>} \cup { <<[k |-> K_gender, x |-> g]>> : g \in PortraitGenders },
      as \in {<<>>} \cup { <<[k |-> K_age, x |-> a]>> : a \in PortraitAges } }

PortraitCalls == [op : {"portrait"}, profile : Portraits]

HelperCalls == StrictnessCalls \cup AgeCalls \cup PortraitCalls

HelperInit ==
  /\ TRANSLIT_MODE = "modern"
  /\ arg \in HelperCalls
  /\ val = <<>>
  /\ prev = <<>>
  /\ hist = <<>>
  /\ LoopIdle

ApplyStrictnessClause ==
  /\ hist = <<>>
  /\ arg.op = "strictness"
  /\ val' = _strictness_clause(arg.strictness)
  /\ hist' = <<"_strictness_clause">>
  /\ UNCHANGED <<TRANSLIT_MODE, arg, prev>>
  /\ UNCHANGED loop_vars

ApplyAgeBand ==
  /\ hist = <<>>
  /\ arg.op = "age"
  /\ val' = _age_band(arg.age)
  /\ hist' = <<"_age_band">>
  /\ UNCHANGED <<TRANSLIT_MODE, arg, prev>>
  /\ UNCHANGED loop_vars

BuildPortraitPrompts ==
  /\ hist = <<>>
  /\ arg.op = "portrait"
  /\ val' = build_image_prompts_from_profile(arg.profile)
  /\ hist' = <<"build_image_prompts_from_profile">>
  /\ UNCHANGED <<TRANSLIT_MODE, arg, prev>>
  /\ UNCHANGED loop_vars

HelperNext == ApplyStrictnessClause \/ ApplyAgeBand \/ BuildPortraitPrompts

HelperSpec == HelperInit /\ [][HelperNext]_vars

(***************************************************************************)
(* _extract_json on texts of braces and other characters, applied once and *)
(* once more to its own result                                             *)
(***************************************************************************)
MaxBraceLen == 5

BraceTexts == UNION { [1..n -> {"{", "}", "x"}] : n \in 0..MaxBraceLen }

ExtractInit ==
  /\ TRANSLIT_MODE = "modern"
  /\ arg \in BraceTexts
  /\ val = <<>>
  /\ prev = <<>>
  /\ hist = <<>>
  /\ LoopIdle

ExtractJson ==
  /\ hist = <<>>
  /\ val' = _extract_json(arg)
  /\ hist' = <<"_extract_json">>
  /\ UNCHANGED <<TRANSLIT_MODE, arg, prev>>
  /\ UNCHANGED loop_vars

ExtractJsonAgain ==
  /\ hist = <<"_extract_json">>
  /\ prev' = val
  /\ val' = _extract_json(val)
  /\ hist' = hist \o <<"_extract_json">>
  /\ UNCHANGED <<TRANSLIT_MODE, arg>>
  /\ UNCHANGED loop_vars

ExtractNext == ExtractJson \/ ExtractJsonAgain

ExtractSpec == ExtractInit /\ [][ExtractNext]_vars

(***************************************************************************)
(* The persona page: generate_parsverse_profile for the form's age and     *)
(* gender, then build_image_prompts_from_profile on the record it returned *)
(***************************************************************************)
\* st.number_input("Age", min_value=12, max_value=90): one age per band
FormAges == {12, 17, 24, 30, 50, 90}

\* st.selectbox("Gender", ...)
FormGenders ==
  { <<"F","e","m","a","l","e">>,
    <<"M","a","l","e">>,
    <<"N","o","n","-","b","i","n","a","r","y">>,
    <<"P","r","e","f","e","r"," ","n","o","t"," ","t","o"," ","s","a","y">> }

\* completions the banned check accepts: an object with the keys asked for,
\* objects that carry a gender and an age of their own, and prose
PortraitAnswers ==
  { <<"{">> \o member(K_kingdom, <<"\"","M","e","d","i","a","n","\"">>) \o <<"}">>,
    <<"{">> \o member(K_gender, <<"\"","M","a","l","e","\"">>) \o <<",", " ">>
           \o member(K_age, <<"5","0">>) \o <<"}">>,
    <<"{">> \o member(K_gender, <<"\"","f","e","m","a","l","e","\"">>) \o <<",", " ">>
           \o member(K_age, <<"\"","3","0","\"">>) \o <<"}">>,
    <<"s">> }

PortraitInit ==
  /\ TRANSLIT_MODE = "modern"
  /\ arg \in [age : FormAges, gender : FormGenders, answer : PortraitAnswers]
  /\ val = <<>>
  /\ prev = PyNone
  /\ hist = <<>>
  /\ LoopIdle

\* generate_parsverse_profile(age=int(d_age), gender=d_gender, ...): the
\* first completion passes the banned check and its record is returned
GeneratePersona ==
  /\ hist = <<>>
  /\ \E out \in {profile_attempt(strip(arg.answer),
                                  PyStr(<<"g","e","n","e","r","a","l"," ","c","i","v","i","c"," ","d","u","t","i","e","s">>))} :
       /\ ~out.raises
       /\ passes_check(out)
       /\ prev' = out.cleaned
  /\ hist' = <<"generate_parsverse_profile">>
  /\ UNCHANGED <<TRANSLIT_MODE, arg, val>>
  /\ UNCHANGED loop_vars

\* build_image_prompt_from_profile(profile) on the record of the page
BuildPersonaPrompt ==
  /\ hist = <<"generate_parsverse_profile">>
  /\ val' = build_image_prompts_from_profile(prev)
  /\ hist' = Append(hist, "build_image_prompts_from_profile")
  /\ UNCHANGED <<TRANSLIT_MODE, arg, prev>>
  /\ UNCHANGED loop_vars

PortraitNext == GeneratePersona \/ BuildPersonaPrompt

PortraitSpec == PortraitInit /\ [][PortraitNext]_vars

(***************************************************************************)
(* Two generation requests served at once: each runs its loop on its own   *)
(* stack (val[r]), the steps of the two interleave, and the cached clients *)
(* are the module state they share.  arg[r] is the request of session r,   *)
(* hist the completion requests in the order in which they were sent.      *)
(***************************************************************************)
Sessions == {1, 2}

SessionRequests ==
  [task : {"myth", "profile"}, name : {<<"R">>, None},
   region : {<<"A","t","l","a","n","t","i","s">>}, hobby : Hobbies,
   detail_level : RequestDetailLevels]

\* the completion call raised
CallRaises == <<"raises">>

\* what the collaborator answers a session: prose, or an object that fails
\* the banned check, an object that passes it, a JSON list
SessionContents(task) ==
  IF task = "profile"
  THEN { <<"{">> \o member(K_titles, <<"\"","a"," ","k","a","r","m","a","\"">>) \o <<"}">>,
         <<"{">> \o member(K_kingdom, <<"\"","M","e","d","i","a","n","\"">>) \o <<"}">>,
         <<"[","]">> }
  ELSE { <<"k","a","r","m","a"," ","s">> }

\* the locals of a call that has not started
NewCall ==
  [pc |-> "start", revisions |-> 0, tries |-> 0, calls |-> 0, answers |-> <<>>,
   last |-> PyNone, result |-> NoResult, error |-> "none"]

\* the function run on its own: what the sequential loop gives for a request,
\* an environment and the answers of its completion calls, in order
RECURSIVE loop_alone(_, _, _, _, _, _)
loop_alone(request, client_ok, answers, k, tries_, last_) ==
  IF tries_ = max_tries
  THEN [pc |-> "returned", calls |-> k - 1, error |-> "none",
        result |-> exhausted_result(request.task, last_)]
  ELSE IF ~client_ok
  THEN [pc |-> "raised", calls |-> k - 1, error |-> "RuntimeError", result |-> NoResult]
  ELSE IF k > Len(answers)
  THEN [pc |-> "loop", calls |-> k - 1, error |-> "none", result |-> NoResult]
  ELSE IF answers[k] = CallRaises
  THEN [pc |-> "raised", calls |-> k, error |-> "ProviderError", result |-> NoResult]
  ELSE \* the outcome is computed once
       CHOOSE end \in
         { IF out.raises
           THEN [pc |-> "raised", calls |-> k, error |-> "AttributeError", result |-> NoResult]
           ELSE IF passes_check(out)
           THEN [pc |-> "returned", calls |-> k, error |-> "none", result |-> out.cleaned]
           ELSE loop_alone(request, client_ok, answers, k + 1, tries_ + 1, out.cleaned)
           : out \in {attempt_outcome(request.task, strip(answers[k]), PyStr(request.hobby))} } : TRUE

generate_alone(request, client_ok, answers) ==
  IF falsy(request.name) \/ falsy(request.region)
  THEN [pc |-> "raised", calls |-> 0, error |-> "ValueError", result |-> NoResult]
  ELSE loop_alone(request, client_ok, answers, 1, 0,
                  IF request.task = "profile" THEN PyNone ELSE PyStr(<<>>))

\* a prompt kept in one place for all the sessions
prompt_revisions_shared(r, locals) ==
  Max(locals[1].revisions, locals[2].revisions)

\* the prompt a session sends is the local of its own call
prompt_revisions(r, locals) == locals[r].revisions

SessionsInit ==
  /\ TRANSLIT_MODE = "modern"
  /\ \E env \in Environments : PROVIDER = env.provider /\ key_set = env.key
  /\ _openai_client = FALSE
  /\ _groq_client = FALSE
  /\ arg \in [Sessions -> SessionRequests]
  /\ val = [r \in Sessions |-> NewCall]
  /\ prev = <<>>
  /\ hist = <<>>
  /\ req = [task |-> "none", name |-> None, region |-> None, hobby |-> None,
            detail_level |-> 0]
  /\ pc = "idle"
  /\ prompt = [region |-> None, revisions |-> 0, max_tokens |-> 0]
  /\ tries = 0
  /\ calls = 0
  /\ lookups = 0
  /\ raw = <<>>
  /\ last = PyNone
  /\ result = NoResult
  /\ error = "none"
  /\ failure = "none"

session_locals == <<req, pc, prompt, tries, calls, lookups, raw, last, result, error, failure>>

\* validation and the locals of the loop
S_Validate(r) ==
  /\ val[r].pc = "start"
  /\ val' = [val EXCEPT ![r] =
       IF falsy(arg[r].name) \/ falsy(arg[r].region)
       THEN [@ EXCEPT !.pc = "raised", !.error = "ValueError"]
       ELSE [@ EXCEPT !.pc = "loop",
                      !.last = IF arg[r].task = "profile" THEN PyNone ELSE PyStr(<<>>)]]
  /\ UNCHANGED <<TRANSLIT_MODE, PROVIDER, key_set, _openai_client, _groq_client, arg, prev, hist>>
  /\ UNCHANGED session_locals

\* _get_client() up to its test of the cached client: the client is returned,
\* or is about to be created, or RuntimeError is raised
S_GetClient(r) ==
  /\ val[r].pc = "loop"
  /\ val[r].tries < max_tries
  /\ val' = [val EXCEPT ![r].pc =
       IF PROVIDER \notin {"openai", "groq"} THEN "raised"
       ELSE IF (PROVIDER = "openai" /\ _openai_client) \/ (PROVIDER = "groq" /\ _groq_client)
       THEN "call"
       ELSE IF key_set THEN "create" ELSE "raised",
                         ![r].error =
       IF PROVIDER \in {"openai", "groq"}
          /\ (key_set \/ (PROVIDER = "openai" /\ _openai_client)
                      \/ (PROVIDER = "groq" /\ _groq_client))
       THEN @ ELSE "RuntimeError"]
  /\ UNCHANGED <<TRANSLIT_MODE, PROVIDER, key_set, _openai_client, _groq_client, arg, prev, hist>>
  /\ UNCHANGED session_locals

\* _openai_client = OpenAI(api_key=key) / _groq_client = Groq(api_key=key)
S_CreateClient(r) ==
  /\ val[r].pc = "create"
  /\ cache_client
  /\ val' = [val EXCEPT ![r].pc = "call"]
  /\ UNCHANGED <<TRANSLIT_MODE, PROVIDER, key_set, arg, prev, hist>>
  /\ UNCHANGED session_locals

\* the completion call raises
S_CompletionFails(r) ==
  /\ val[r].pc = "call"
  /\ val' = [val EXCEPT ![r].pc = "raised", ![r].error = "ProviderError",
                        ![r].calls = @ + 1, ![r].answers = Append(@, CallRaises)]
  /\ hist' = Append(hist, [by |-> r, revisions |-> prompt_revisions(r, val)])
  /\ UNCHANGED <<TRANSLIT_MODE, PROVIDER, key_set, _openai_client, _groq_client, arg, prev>>
  /\ UNCHANGED session_locals

\* the completion call answers, and the rest of the iteration
S_Attempt(r) ==
  /\ val[r].pc = "call"
  /\ \E content \in SessionContents(arg[r].task) :
     \E out \in {attempt_outcome(arg[r].task, strip(content), PyStr(arg[r].hobby))} :
       val' = [val EXCEPT ![r] =
         IF out.raises
         THEN [@ EXCEPT !.pc = "raised", !.error = "AttributeError", !.calls = @ + 1,
                        !.answers = Append(@, content)]
         ELSE IF passes_check(out)
         THEN [@ EXCEPT !.pc = "returned", !.result = out.cleaned, !.last = out.cleaned,
                        !.calls = @ + 1, !.answers = Append(@, content)]
         ELSE [@ EXCEPT !.pc = "loop", !.last = out.cleaned, !.calls = @ + 1,
                        !.tries = @ + 1, !.revisions = @ + 1,
                        !.answers = Append(@, content)]]
  /\ hist' = Append(hist, [by |-> r, revisions |-> prompt_revisions(r, val)])
  /\ UNCHANGED <<TRANSLIT_MODE, PROVIDER, key_set, _openai_client, _groq_client, arg, prev>>
  /\ UNCHANGED session_locals

\* the loop has run max_tries times
S_Exhausted(r) ==
  /\ val[r].pc = "loop"
  /\ val[r].tries = max_tries
  /\ val' = [val EXCEPT ![r].pc = "returned",
                        ![r].result = exhausted_result(arg[r].task, val[r].last)]
  /\ UNCHANGED <<TRANSLIT_MODE, PROVIDER, key_set, _openai_client, _groq_client, arg, prev, hist>>
  /\ UNCHANGED session_locals

SessionsNext ==
  \E r \in Sessions :
    \/ S_Validate(r)
    \/ S_GetClient(r)
    \/ S_CreateClient(r)
    \/ S_CompletionFails(r)
    \/ S_Attempt(r)
    \/ S_Exhausted(r)

SessionsSpec == SessionsInit /\ [][SessionsNext]_vars

(***************************************************************************)
(* Properties                                                              *)
(***************************************************************************)

(***************************************************************************)
(* The generation loop                                                     *)
(***************************************************************************)
\* the attempt made on the completion text the loop read last
last_attempt == attempt_outcome(req.task, raw, PyStr(req.hobby))

\* C1: when the completion collaborator does not raise, the loop makes at most
\* 3 completion calls and returns a value: a valid request never ends in an
\* error that the collaborator did not raise.
C1_AlwaysReturns ==
  /\ calls <= max_tries
  /\ (pc = "raised" => (failure # "none" \/ error = "ValueError"))

\* C2: a myth request whose first completion contains a banned word is found
\* in violation after that call: the myth is not returned, and the second
\* call is made with a revised prompt.
C2_MythRevisesAfterBannedDraft ==
  (req.task = "myth" /\ calls = 1 /\ pc \in {"loop", "returned"} /\ contains_banned(raw))
    => (pc = "loop" /\ prompt.revisions = 1)

\* C3: as soon as the cleaned result of attempt k passes the banned check it
\* is returned: the loop does not go on after a passing attempt, the value
\* returned on the success exit is the cleaned output of attempt k, k calls
\* were made, and no call follows the return.
C3_SuccessExit ==
  /\ [](/\ (pc = "loop" /\ calls > 0) => contains_banned(last_attempt.checked)
        /\ (pc = "returned" /\ tries < max_tries)
             => /\ ~contains_banned(last_attempt.checked)
                /\ result = last_attempt.cleaned
                /\ calls = tries + 1
                /\ error = "none")
  /\ [][pc = "returned" => (calls' = calls /\ result' = result)]_vars

\* a second attempt passes contains_banned and its cleaned output is returned
C3_Witness ==
  /\ pc = "returned"
  /\ calls = 2
  /\ tries = 1
  /\ result = last_attempt.cleaned
  /\ result # PyDict(<<>>)

\* C4: when all 3 attempts fail the banned check the function returns, with
\* no error, the cleaned result of the third attempt.
C4_ExhaustedReturnsLast ==
  (pc = "returned" /\ tries = max_tries)
    => /\ calls = max_tries
       /\ contains_banned(last_attempt.checked)
       /\ result = last_attempt.cleaned
       /\ error = "none"
       /\ failure = "none"

\* three attempts failed contains_banned and the third one's result is returned
C4_Witness ==
  /\ pc = "returned"
  /\ tries = max_tries
  /\ calls = 3
  /\ result = last_attempt.cleaned
  /\ contains_banned(last_attempt.checked)

\* C5: a request whose name or region is empty fails with the validation
\* error; no client lookup and no completion call is made for it.
C5_ValidationBeforeAnyCall ==
  (req.name \in {<<>>, None} \/ req.region \in {<<>>, None})
    => /\ calls = 0
       /\ lookups = 0
       /\ pc \in {"start", "raised"}
       /\ (pc = "raised" => error = "ValueError")
       /\ result = NoResult

\* a request with an empty name or region has been rejected
C5_Witness ==
  /\ pc = "raised"
  /\ error = "ValueError"
  /\ req.name = <<>>
  /\ req.region # <<>>

\* C6: an error of the completion call, or of the client's construction, ends
\* the function with that error: no result is returned and no completion
\* call follows it.
C6_ErrorsPropagate ==
  /\ [](failure # "none"
          => /\ pc = "raised"
             /\ result = NoResult
             /\ error = (IF failure = "credential" THEN "RuntimeError" ELSE "ProviderError")
             /\ (failure = "credential" => calls = tries))
  /\ [][failure # "none" => (calls' = calls /\ pc' = pc)]_vars

\* the second completion call raised after a first draft was rejected
C6_Witness ==
  /\ failure = "transport"
  /\ calls = 2
  /\ tries = 1
  /\ pc = "raised"

\* C7: a text returned by the myth or the chronicle generator, on either
\* exit, matches no banned pattern.
C7_ReturnedTextNotBanned ==
  (pc = "returned" /\ req.task \in {"myth", "story"})
    => /\ isinstance(result, "str")
       /\ ~contains_banned(result.v)

\* a myth is returned for a completion that contained a banned term
C7_Witness ==
  /\ pc = "returned"
  /\ req.task = "myth"
  /\ contains_banned(raw)
  /\ ~contains_banned(result.v)


\* C8: scrubbing is idempotent: sanitize_non_iranian applied to a text it has
\* already scrubbed (deletions, whitespace collapse and trim) changes nothing.
C8_SanitizeIdempotent ==
  hist = <<"sanitize", "sanitize">> => val = prev

\* C8 witness: a text with a banned term between words was scrubbed twice, and
\* the first pass both deleted and collapsed.
C8_Witness ==
  /\ hist = <<"sanitize", "sanitize">>
  /\ contains_banned(arg)
  /\ val = prev
  /\ val # <<>>
  /\ Len(val) < Len(arg) - 5

\* C9: for a text T with contains_banned(T) false, sanitize_non_iranian(T) is T
\* with only the whitespace normalization applied.
C9_CleanTextOnlyNormalized ==
  (hist = <<"sanitize">> /\ ~contains_banned(arg))
    => val = normalize_whitespace(arg)

\* C9 witness: a text without a banned term (but with a near miss, a banned
\* stem inside a longer word) was scrubbed, and only its whitespace changed.
C9_Witness ==
  /\ hist = <<"sanitize">>
  /\ ~contains_banned(arg)
  /\ \E i \in 1..Len(arg) : literal_at(<<"k","a","r","m","a">>, arg, i)
  /\ val # arg
  /\ val = normalize_whitespace(arg)

\* C10 as stated: _normalize_region(R) is R when R is one of the ten regions
\* and the default "Persis" whenever R is not one of them.
C10_Original ==
  hist = <<"_normalize_region">> =>
    /\ val \in KNOWN_REGIONS
    /\ (arg \in KNOWN_REGIONS => val = arg)
    /\ (arg \notin KNOWN_REGIONS => val = DefaultRegion)

\* C10 amended: _normalize_region(R) is always one of the ten regions; it is R
\* when R is one of them, and the default "Persis" exactly when R with its
\* surrounding whitespace trimmed (None as empty) is not one of them.
C10_NormalizeRegionTotal ==
  hist = <<"_normalize_region">> =>
    /\ val \in KNOWN_REGIONS
    /\ (arg \in KNOWN_REGIONS => val = arg)
    /\ LET trimmed == IF arg = None THEN <<>> ELSE strip(arg)
       IN IF trimmed \in KNOWN_REGIONS THEN val = trimmed
          ELSE val = DefaultRegion

\* C10 witness: an unrecognized region was normalized to the default.
C10_Witness ==
  /\ hist = <<"_normalize_region">>
  /\ arg = <<"A","t","l","a","n","t","i","s">>
  /\ val = DefaultRegion

(***************************************************************************)
(* The length budget                                                       *)
(***************************************************************************)
\* C11: for a fixed base, step >= 0 and cap, the budget does not decrease from
\* detail level 1 to 2 to 3, and the budget of level 3 is at most the cap.
C11_LengthMonotone ==
  arg.step >= 0 =>
    /\ \A e1 \in val, e2 \in val :
         (e1.detail_level \in {2, 4, 6} /\ e2.detail_level \in {2, 4, 6}
            /\ e1.detail_level <= e2.detail_level) => e1.n <= e2.n
    /\ \A e \in val : e.detail_level = 6 => e.n <= arg.cap

\* the budgets of levels 1, 2 and 3 are computed, they grow, and the cap cuts
\* the last
C11_Witness ==
  /\ arg.step > 0
  /\ {e.detail_level : e \in val} = {2, 4, 6}
  /\ \E e1 \in val, e2 \in val, e3 \in val :
       /\ e1.detail_level = 2 /\ e2.detail_level = 4 /\ e3.detail_level = 6
       /\ e1.n < e2.n
       /\ e3.n = arg.cap
       /\ arg.base + 2 * arg.step > arg.cap

(***************************************************************************)
(* The persona coercion                                                    *)
(***************************************************************************)
\* C12: for any completion text (empty, no JSON, truncated JSON, JSON that is
\* no object) the persona coercion does not raise and gives a record that
\* has all 16 canonical keys.
C12_CoercionNeverRaises ==
  hist = <<"coercion">>
    => /\ ~val.raises
       /\ isinstance(val.cleaned, "dict")
       /\ \A i \in 1..Len(CANONICAL_KEYS) : dict_has(val.cleaned, CANONICAL_KEYS[i])

\* the coercion of the plain, well-formed object of an answer
plain_coercion == {coercion(plain_object(arg.answer.members), PyStr(arg.hobby))}

fallback_fields(hobby, backstory) ==
  PyDict(<< [k |-> K_kingdom, x |-> PyStr(<<>>)],
            [k |-> K_locale, x |-> PyStr(<<>>)],
            [k |-> K_role, x |-> PyStr(<<>>)],
            [k |-> K_favorite_food, x |-> PyStr(<<>>)],
            [k |-> K_hobby, x |-> hobby],
            [k |-> K_friends, x |-> PyStr(<<>>)],
            [k |-> K_titles, x |-> PyList(<<>>)],
            [k |-> K_symbols, x |-> PyList(<<>>)],
            [k |-> K_artifact, x |-> PyStr(<<>>)],
            [k |-> K_appearance, x |-> PyStr(<<>>)],
            [k |-> K_dwelling, x |-> PyStr(<<>>)],
            [k |-> K_daily_routine, x |-> PyStr(<<>>)],
            [k |-> K_festival, x |-> PyStr(<<>>)],
            [k |-> K_short_story, x |-> PyStr(<<>>)],
            [k |-> K_backstory, x |-> backstory],
            [k |-> K_motto, x |-> PyStr(<<>>)] >>)

C15_ReturnedRecordClean ==
  (pc = "returned" /\ req.task = "profile")
    => /\ \A i \in 1..Len(result.v) :
            isinstance(result.v[i].x, "str") => ~contains_banned(result.v[i].x.v)
       /\ \A i \in 1..Len(scalar_fields) :
            ~contains_banned(as_text(dict_get(result, scalar_fields[i], PyStr(<<>>))))
       /\ (tries < max_tries => ~contains_banned(concat_fields(result)))

\* C16: generate_image_png_bytes never raises, and on every failure (no
\* credential, an error status, a timeout, a provider exception, an answer
\* without an image) it returns None, whatever the image provider.
C16_ImageFailureReturnsNone ==
  val.calls > 0
    => /\ val.out # "raised"
       /\ (val.response # "image" => val.out = "None")

\* C17: after a successful parse, each of the fourteen scalar fields that
\* arrived as a list is replaced by its stringified elements joined with
\* "; ", and that string is what is cleaned and kept in the record.
C17_ListsFlattened ==
  (hist = <<"coercion">> /\ ~parse_fails(prev) /\ ~val.raises)
    => \A i \in 1..Len(scalar_fields) :
         \A x \in {dict_get(val.data, scalar_fields[i], PyNone)} :
           isinstance(x, "list")
             => \A joined \in {join(<<";", " ">>, [j \in 1..Len(x.v) |-> py_str(x.v[j])])} :
                  /\ dict_get(val.flattened, scalar_fields[i], PyNone) = PyStr(joined)
                  /\ dict_get(val.cleaned, scalar_fields[i], PyNone) = PyStr(clean_str(joined))

\* str.count(needle) without overlaps mattering: the positions of s where
\* needle stands
occurrences(needle, s) ==
  Cardinality({i \in 1..(Len(s) - Len(needle) + 1) : SubSeq(s, i, i + Len(needle) - 1) = needle})

\* C18: in "modern" mode the result of prefer_persian_forms holds the
\* parenthesized exonym at most once, at the first occurrence, however often
\* the exonym stood in the text; in "old_persian" mode the result holds no
\* exonym.
C18_ExonymGlossedOnce ==
  hist = <<"prefer">>
    => IF TRANSLIT_MODE = "modern"
       THEN \A k \in 1..Len(GREEK_TO_PERSIAN_MODERN) :
              occurrences(<<"(">> \o GREEK_TO_PERSIAN_MODERN[k].stem \o <<")">>, val) <= 1
       ELSE \A k \in 1..Len(GREEK_TO_PERSIAN_OLD) : ~re_search(GREEK_TO_PERSIAN_OLD[k], val)

\* some pattern of the mapping of the mode matches in the text
contains_exonym(text) ==
  LET mapping == IF TRANSLIT_MODE = "modern" THEN GREEK_TO_PERSIAN_MODERN
                 ELSE GREEK_TO_PERSIAN_OLD
  IN \E k \in 1..Len(mapping) : re_search(mapping[k], text)

\* no whitespace at either end of the text
trimmed(text) ==
  text = <<>> \/ (text[1] \notin Whitespace /\ text[Len(text)] \notin Whitespace)

\* the text has nothing for the whitespace rules of sanitize_non_iranian: no
\* two spaces or tabs in a row, no three newlines in a row, no whitespace at
\* either end
scrub_regular(text) ==
  /\ trimmed(text)
  /\ \A i \in 1..(Len(text) - 1) : ~(text[i] \in {" ", "\t"} /\ text[i + 1] \in {" ", "\t"})
  /\ \A i \in 1..(Len(text) - 2) : ~(text[i] = "\n" /\ text[i + 1] = "\n" /\ text[i + 2] = "\n")

\* the text has nothing for the whitespace rule of prefer_persian_forms: no
\* two whitespace characters in a row, no whitespace at either end
prefer_regular(text) ==
  /\ trimmed(text)
  /\ \A i \in 1..(Len(text) - 1) : ~(text[i] \in Whitespace /\ text[i + 1] \in Whitespace)

\* C19 as stated: on a text with no banned term and no exonym, blank lines and
\* repeated spaces included, each pass gives the text back.
C19_Original ==
  (hist # <<>> /\ ~contains_banned(prev) /\ ~contains_exonym(prev)) => val = prev

\* C19: on a text with no banned term and no exonym (the empty text included),
\* sanitize_non_iranian gives the text back when the text has no whitespace at
\* its ends, no two spaces or tabs in a row and no three newlines in a row;
\* prefer_persian_forms gives the text back when the text has no whitespace at
\* its ends and no two whitespace characters in a row.
C19_NoMatchNoOp ==
  (hist # <<>> /\ ~contains_banned(prev) /\ ~contains_exonym(prev))
    => /\ (hist[Len(hist)] = "sanitize" /\ scrub_regular(prev)) => val = prev
       /\ (hist[Len(hist)] = "prefer" /\ prefer_regular(prev)) => val = prev

\* a text of two words with a tab between them went through
\* prefer_persian_forms unchanged
C19_Witness ==
  /\ hist = <<"prefer">>
  /\ ~contains_banned(prev)
  /\ ~contains_exonym(prev)
  /\ prefer_regular(prev)
  /\ \E i \in 1..Len(prev) : prev[i] = "\t"
  /\ val = prev

\* C20: in each generation loop the request of attempt k carries the initial
\* prompt with k - 1 REVISION blocks, at most three requests are sent, and
\* every request has the temperature and the max_tokens of the first one.
\* While the loop goes on, every answer so far failed the banned check and
\* added one REVISION block; an answer that passes the check returns without
\* adding one.
C20_RevisionPerFailedAttempt ==
  /\ Len(hist) <= max_tries
  /\ \A k \in 1..Len(hist) :
       /\ hist[k].revisions = k - 1
       /\ hist[k].temperature = hist[1].temperature
       /\ hist[k].max_tokens = hist[1].max_tokens
       /\ hist[k].max_tokens = max_tokens_for(req.task, req.detail_level)
  /\ (pc = "loop" /\ Len(hist) > 0)
       => /\ prompt.revisions = Len(hist)
          /\ contains_banned(last_attempt.checked)
  /\ (pc = "returned" /\ tries < max_tries)
       => /\ prompt.revisions = Len(hist) - 1
          /\ ~contains_banned(last_attempt.checked)

\* a persona request went through three attempts: the third request carried
\* two REVISION blocks, and the loop returned after a third one was appended
C20_Witness ==
  /\ pc = "returned"
  /\ req.task = "profile"
  /\ Len(hist) = 3
  /\ hist[3].revisions = 2
  /\ hist[3].max_tokens = 1190
  /\ prompt.revisions = 3

\* C21: max_tokens is min(cap, base + (level - 1) * step) with myth 320 / 180 /
\* 1200, chronicle 700 / 300 / 1800, persona 950 / 120 / 1400, the level being
\* the detail level (whole part) clamped into 1..3: a detail level below 1
\* gives the budget of level 1 and one above 3 the budget of level 3.
C21_BudgetOfTask ==
  hist = <<"max_tokens">>
    => \E level \in 1..3 :
         /\ level = (IF arg.detail_level < 4 THEN 1 ELSE IF arg.detail_level < 6 THEN 2 ELSE 3)
         /\ (arg.task = "myth" => val = <<320, 500, 680>>[level])
         /\ (arg.task = "story" => val = <<700, 1000, 1300>>[level])
         /\ (arg.task = "profile" => val = <<950, 1070, 1190>>[level])
         /\ (arg.task = "myth" => val = Min(1200, 320 + (level - 1) * 180))
         /\ (arg.task = "story" => val = Min(1800, 700 + (level - 1) * 300))
         /\ (arg.task = "profile" => val = Min(1400, 950 + (level - 1) * 120))

\* a chronicle asked for at detail level 5 has the budget of level 3
C21_Witness ==
  /\ hist = <<"max_tokens">>
  /\ arg.task = "story"
  /\ arg.detail_level = 10
  /\ val = 1300

\* C22: the clause is the rigorous one for a strictness of 0.8 or more, the
\* grounded one from 0.5 up to but not 0.8, and the poetic one below 0.5; a
\* strictness outside [0, 1] is clamped first, so every strictness has exactly
\* one clause and the boundary values 0.5 and 0.8 have the stricter one.
C22_StrictnessBands ==
  hist = <<"_strictness_clause">>
    => /\ val \in {"rigorous", "grounded", "poetic"}
       /\ (val = "rigorous" <=> arg.strictness >= 80)
       /\ (val = "grounded" <=> (arg.strictness >= 50 /\ arg.strictness < 80))
       /\ (val = "poetic" <=> arg.strictness < 50)

\* a strictness of exactly 0.5 has the grounded clause
C22_Witness ==
  /\ hist = <<"_strictness_clause">>
  /\ arg.strictness = 50
  /\ val = "grounded"

\* the terms of a sequence
terms_of(seq) == {seq[i] : i \in 1..Len(seq)}

\* the band of an age as the list of bands gives it
band_of(a) ==
  IF a <= 14 THEN "child"
  ELSE IF a <= 19 THEN "late-teen"
  ELSE IF a <= 25 THEN "young adult"
  ELSE IF a <= 44 THEN "adult"
  ELSE IF a <= 59 THEN "middle-aged adult"
  ELSE "elder"

\* C24 as stated: each integer age has the one band of the list, and the
\* exclusion terms of a band describe the opposite end of the age spectrum
\* only: old age for the young bands, youth for the old bands.
C24_Original ==
  hist = <<"_age_band">>
    => /\ val.band = band_of(arg.age)
       /\ (val.band \in {"child", "late-teen", "young adult"}
             => terms_of(val.neg) \subseteq {"elderly", "wrinkles", "grey hair"})
       /\ (val.band \in {"middle-aged adult", "elder"}
             => terms_of(val.neg) \subseteq {"child", "teen", "baby-face", "youthful"})

\* C24: each integer age has the one band of the list (child to 14, late-teen
\* 15-19, young adult 20-25, adult 26-44, middle-aged 45-59, elder from 60);
\* the three young bands exclude elderly, wrinkles and grey hair, the two old
\* bands exclude child and teen, the adult band excludes nothing; besides
\* these the child band excludes teen and adult, the late-teen band child, the
\* old bands baby-face and the elder band youthful.
C24_AgeBands ==
  hist = <<"_age_band">>
    => /\ val.band = band_of(arg.age)
       /\ (val.band \in {"child", "late-teen", "young adult"}
             => {"elderly", "wrinkles", "grey hair"} \subseteq terms_of(val.neg))
       /\ (val.band \in {"middle-aged adult", "elder"}
             => {"child", "teen"} \subseteq terms_of(val.neg))
       /\ (val.band = "child"
             => terms_of(val.neg) = {"teen", "adult", "elderly", "wrinkles", "grey hair"})
       /\ (val.band = "late-teen"
             => terms_of(val.neg) = {"child", "elderly", "wrinkles", "grey hair"})
       /\ (val.band = "young adult" => terms_of(val.neg) = {"elderly", "wrinkles", "grey hair"})
       /\ (val.band = "adult" => val.neg = <<>>)
       /\ (val.band = "middle-aged adult" => terms_of(val.neg) = {"child", "teen", "baby-face"})
       /\ (val.band = "elder" => terms_of(val.neg) = {"child", "teen", "baby-face", "youthful"})

\* age 60 is the first age of the elder band
C24_Witness ==
  /\ hist = <<"_age_band">>
  /\ arg.age = 60
  /\ val.band = "elder"
  /\ Len(val.neg) = 4

\* the exclusion terms of a built portrait prompt, group after group
groups_of(out) ==
  BASE_NEGATIVE
  \o (IF out.gender_pos = "female"
      THEN <<"male", "man", "masculine", "beard", "moustache", "stubble", "broad jawline">>
      ELSE IF out.gender_pos = "male" THEN <<"female", "woman">> ELSE <<>>)
  \o (CHOOSE b \in {_age_band(a) : a \in 0..60} : b.band = out.age_text).neg

\* the terms of a negative description, without the separators
negative_terms(negative) == [k \in 1..((Len(negative) + 1) \div 2) |-> negative[2 * k - 1]]

\* C23: the negative description of a persona image holds every base, gender
\* and age exclusion term exactly once, separated by ", ", in the order in
\* which each term is first seen: base terms, then gender terms, then age terms
C23_NegativeOnceInOrder ==
  (hist = <<"build_image_prompts_from_profile">> /\ ~val.raises) =>
    \A groups \in {groups_of(val)} : \A terms \in {negative_terms(val.negative)} :
      /\ \A i \in 1..Len(val.negative) : (i % 2 = 0) => val.negative[i] = ", "
      /\ \A i \in 1..Len(groups) : Cardinality({k \in 1..Len(terms) : terms[k] = groups[i]}) = 1
      /\ \A k \in 1..Len(terms) : \E i \in 1..Len(groups) : groups[i] = terms[k]
      /\ \A k1, k2 \in 1..Len(terms) :
           k1 < k2 =>
             \E i1, i2 \in 1..Len(groups) :
               /\ i1 < i2
               /\ groups[i1] = terms[k1] /\ \A j \in 1..(i1 - 1) : groups[j] # terms[k1]
               /\ groups[i2] = terms[k2] /\ \A j \in 1..(i2 - 1) : groups[j] # terms[k2]

\* a record with gender " m" and age 17 gets the 13 base terms, then
\* female and woman, then the four terms of the late-teen band
C23_Witness ==
  /\ hist = <<"build_image_prompts_from_profile">>
  /\ arg.op = "portrait"
  /\ dict_get(arg.profile, K_gender, PyNone) = PyStr(<<" ", "m">>)
  /\ dict_get(arg.profile, K_age, PyNone) = PyInt(<<"1", "7">>)
  /\ ~val.raises
  /\ Len(negative_terms(val.negative)) = 19
  /\ negative_terms(val.negative)[14] = "female"
  /\ negative_terms(val.negative)[16] = "child"
  /\ negative_terms(val.negative)[19] = "grey hair"

\* the result of the first extraction of a run
first_extract == IF Len(hist) = 1 THEN val ELSE prev

\* C25: JSON extraction takes the text from the first "{" to the last "}"
\* inclusive when the last "}" comes after the first "{", returns the whole
\* input otherwise, and applied to its own result it changes nothing
C25_ExtractFirstToLast ==
  (hist # <<>>) =>
    /\ \/ \E s, e \in 1..Len(arg) :
            /\ s < e
            /\ arg[s] = "{" /\ \A i \in 1..(s - 1) : arg[i] # "{"
            /\ arg[e] = "}" /\ \A i \in (e + 1)..Len(arg) : arg[i] # "}"
            /\ first_extract = SubSeq(arg, s, e)
       \/ /\ \A s, e \in 1..Len(arg) : (arg[s] = "{" /\ arg[e] = "}") => e < s
          /\ first_extract = arg
    /\ (Len(hist) = 2) => val = prev

\* x{}x}x is cut to {}x} by the first extraction and stays so in the second
C25_Witness ==
  /\ hist = <<"_extract_json", "_extract_json">>
  /\ arg = <<"x", "{", "}", "x", "}">>
  /\ prev = <<"{", "}", "x", "}">>
  /\ val = prev

C30_PreferIdempotent ==
  (hist = <<"prefer", "prefer">>) => val = prev

\* the canonical fields of a parsed object whose values the cleaning skips: a
\* list in a scalar field that is not flattened, a str in titles or symbols,
\* an object anywhere
skipped_fields(data) ==
  { i \in 1..Len(CANONICAL_KEYS) :
      /\ dict_has(data, CANONICAL_KEYS[i])
      /\ \A x \in {dict_get(data, CANONICAL_KEYS[i], PyNone)} :
           \/ isinstance(x, "dict")
           \/ /\ isinstance(x, "str")
              /\ CANONICAL_KEYS[i] \in {K_titles, K_symbols}
           \/ /\ isinstance(x, "list")
              /\ CANONICAL_KEYS[i] \notin {K_titles, K_symbols}
              /\ \A j \in 1..Len(list_like_fields) : list_like_fields[j] # CANONICAL_KEYS[i] }

\* every canonical field present is a str, titles and symbols are lists
well_typed(data) ==
  \A i \in 1..Len(CANONICAL_KEYS) :
    dict_has(data, CANONICAL_KEYS[i]) =>
      isinstance(dict_get(data, CANONICAL_KEYS[i], PyNone),
                 IF CANONICAL_KEYS[i] \in {K_titles, K_symbols} THEN "list" ELSE "str")

\* C28: the persona loop goes on after an answer only when the parsed object
\* holds a banned term in a canonical field whose value has a type the
\* cleaning skips; an answer that cannot be parsed, or whose canonical fields
\* are all strings with titles and symbols lists, ends the loop, so that one
\* completion call is made when it is the first answer.
C28_RetryOnlyOnSkippedType ==
  (req.task = "profile" /\ calls > 0) =>
    \A data \in {parse_profile(raw, PyStr(req.hobby))} :
      /\ (calls >= 2 => tries >= 1)
      /\ (pc = "loop") =>
           /\ isinstance(data, "dict")
           /\ \E i \in skipped_fields(data) :
                contains_banned(as_text(dict_get(data, CANONICAL_KEYS[i], PyNone)))
      /\ (parse_fails(raw) \/ (isinstance(data, "dict") /\ well_typed(data))) =>
           (failure = "none" =>
              /\ pc = "returned"
              /\ tries < max_tries
              /\ calls = tries + 1
              /\ (tries = 0 => calls = 1))

\* a first answer with a str in titles was retried, and the second answer,
\* with a banned word in a str of kingdom, was returned after two calls
C28_Witness ==
  /\ req.task = "profile"
  /\ pc = "returned"
  /\ calls = 2
  /\ tries = 1
  /\ ~parse_fails(raw)
  /\ well_typed(parse_profile(raw, PyStr(req.hobby)))
  /\ contains_banned(py_str(dict_get(parse_profile(raw, PyStr(req.hobby)), K_kingdom, PyStr(<<>>))))

\* C29: the prompt pair built from the record that the persona generator
\* returned for a request with age A and gender G has the age band of A as
\* its subject's age and, for a female or male G, that gender with the
\* exclusion terms of the opposite gender.
C29_RequestReachesPrompt ==
  (Len(hist) = 2) =>
    /\ ~val.raises
    /\ val.age_text = _age_band(arg.age).band
    /\ (arg.gender = <<"F","e","m","a","l","e">>) =>
         /\ val.gender_pos = "female"
         /\ \E i \in 1..Len(val.negative) : val.negative[i] = "masculine"
    /\ (arg.gender = <<"M","a","l","e">>) =>
         /\ val.gender_pos = "male"
         /\ \E i \in 1..Len(val.negative) : val.negative[i] = "woman"

\* the places in hist of the completion requests that session r sent
sent_by(r) == {k \in 1..Len(hist) : hist[k].by = r}

====
